---- MODULE Spec2Model ----
(***************************************************************************)
(* koality: the check evaluator (checks.py, DataQualityCheck) and the      *)
(* executor's run (executor.py, CheckExecutor.execute_checks) with its     *)
(* bulk fetch and its data-existence cache.                                *)
(*                                                                         *)
(* Spec      : one run of CheckExecutor.execute_checks over a configuration*)
(*             of up to MaxChecks checks.                                  *)
(* SpecCheck : one call of a single check object (DataQualityCheck.__call__)*)
(*             over every threshold pair and every metric value.           *)
(* SpecPlan  : get_data_requirements and fetch_data_into_memory over checks *)
(*             with typed filters.                                         *)
(* SpecAggregate : _aggregate_result_dicts and _aggregate_checks_msgs.     *)
(* SpecDefaults  : Config.propagate_defaults_to_checks.                    *)
(* SpecDate  : utils.parse_date.                                           *)
(* SpecIqr   : a run of execute_checks over declared IqrOutlierChecks.     *)
(* SpecMatch : one call of a MatchRateCheck on the rows of its two tables. *)
(* SpecProbe : a run of execute_checks over checks of three classes whose   *)
(*             existence probes are evaluated on the rows of the table.     *)
(* SpecWhere : DataQualityCheck.assemble_where_statement on a filter map.   *)
(* SpecWindow: the metric queries of RelCountChangeCheck and               *)
(*             IqrOutlierCheck on the rows of their table.                 *)
(***************************************************************************)
EXTENDS Integers, Sequences, FiniteSets, TLC

VARIABLES
    config,        \* the resolved configuration: database_accessor and the declared checks;
                   \* in the specifications that evaluate queries also the rows of the tables
    checks,        \* CheckExecutor.checks: the instantiated check objects
    pc,            \* position of the run
    idx,           \* position of the evaluation loop in self.checks
    results,       \* the local list `results` of execute_checks
    result_dicts,  \* CheckExecutor.result_dicts
    check_failed,  \* CheckExecutor.check_failed
    cache,         \* CheckExecutor._data_existence_cache
    queryLog       \* every query handed to the engine, in order of execution

vars == <<config, checks, pc, idx, results, result_dicts, check_failed, cache, queryLog>>

----------------------------------------------------------------------------
(* Bounds *)

MaxChecks == 2      \* declared checks in one run
MaxValue == 1       \* metric values of a run are 0..MaxValue
MaxThreshold == 2   \* finite thresholds and metric values of SpecCheck are 0..MaxThreshold
MaxRecords == 3     \* records and messages handed to the aggregation
MaxOffset == 2      \* offset_days and inline offsets of parse_date are -MaxOffset..MaxOffset
MaxFilters == 3     \* filters of one filter map

----------------------------------------------------------------------------
(* Python values.  A value carries its Python type.                         *)

None == [py |-> "NoneType"]
PyStr(s) == [py |-> "str", s |-> s]
PyInt(n) == [py |-> "int", n |-> n]
Float(n) == [py |-> "float", n |-> n]
PosInf == [py |-> "float", inf |-> 1]
NegInf == [py |-> "float", inf |-> -1]

IsInf(x) == "inf" \in DOMAIN x

Digit(d) ==
    CASE d = 0 -> "0" [] d = 1 -> "1" [] d = 2 -> "2" [] d = 3 -> "3" [] d = 4 -> "4"
      [] d = 5 -> "5" [] d = 6 -> "6" [] d = 7 -> "7" [] d = 8 -> "8" [] d = 9 -> "9"

RECURSIVE IntToStr(_)
IntToStr(n) ==
    IF n < 0 THEN "-" \o IntToStr(0 - n)
    ELSE IF n < 10 THEN Digit(n) ELSE IntToStr(n \div 10) \o Digit(n % 10)

\* str(value) as used in cache keys and f-strings
str(v) ==
    CASE v.py = "str" -> v.s
      [] v.py = "int" -> IntToStr(v.n)
      [] v.py = "NoneType" -> "None"

\* float(value) of a non-null query value
float(v) == IF v.py = "int" THEN Float(v.n) ELSE v

\* a <= b on Python floats, infinities included
FloatLeq(a, b) ==
    IF IsInf(a) THEN a.inf = -1 \/ (IsInf(b) /\ b.inf = 1)
    ELSE IF IsInf(b) THEN b.inf = 1
    ELSE a.n <= b.n

\* str(x) of a float: "inf", "-inf" or the number with one decimal
FloatStr(x) ==
    IF IsInf(x) THEN (IF x.inf = 1 THEN "inf" ELSE "-inf") ELSE IntToStr(x.n) \o ".0"

\* f"{value:.4f}" of check(), "NULL" for a null value
value_string(x) ==
    IF x = None THEN "NULL"
    ELSE IF IsInf(x) THEN FloatStr(x)
    ELSE IntToStr(x.n) \o ".0000"

EmptyDict == [k \in {} |-> None]
NoMessage == <<>>      \* message is None

----------------------------------------------------------------------------
(* Inputs *)

\* the datasets the checks of a run read: a table and the value of the shop_id
\* filter, a string (models.py types filter values as str)
Datasets ==
    {[table |-> "orders", shop_id |-> PyStr("SHOP001")],
     [table |-> "orders", shop_id |-> PyStr("SHOP002")],
     [table |-> "feed", shop_id |-> PyStr("SHOP001")],
     [table |-> "feed", shop_id |-> PyStr("SHOP002")]}
DateValues == {"2023-01-01"}
\* the text of a driver error (str(e) of a duckdb.Error), never empty
ErrorTexts == {"Catalog Error: Table does not exist"}
Accessors == {"", "bq"}

\* today's datetime in ISO format (dt.datetime.today().isoformat())
TodayDatetime == "2026-11-05T10:00:00.000000"

\* the declared parameters of one check of a run
CheckConfigs ==
    {[table |-> d.table, shop_id |-> d.shop_id, date |-> dv, monitor_only |-> m,
      lower_threshold |-> Float(1), upper_threshold |-> Float(1)] :
        d \in Datasets, dv \in DateValues, m \in BOOLEAN}

\* the metric values the engine returns in a run, and in a call of a single check
RunValues == {PyInt(n) : n \in 0..MaxValue}
CallValues == {None} \cup {PyInt(n) : n \in 0..MaxThreshold}

Thresholds == {NegInf, PosInf} \cup {Float(n) : n \in 0..MaxThreshold}

\* the declared parameters of the single check of SpecCheck
SingleCheckConfigs ==
    [table: {"orders"}, shop_id: {PyStr("SHOP001")}, date: DateValues, monitor_only: BOOLEAN,
     lower_threshold: Thresholds, upper_threshold: Thresholds]

SeqsUpTo(S, n) == UNION {[1..k -> S] : k \in 0..n}

----------------------------------------------------------------------------
(* DataQualityCheck *)

\* CountCheck.assemble_name
assemble_name(check_column) ==
    IF check_column = "*" THEN "row_count" ELSE check_column \o "_count"

\* DataQualityCheck.__init__ : the check object after construction
NewCheck(cfg, database_accessor) ==
    LET filters == [name \in {"shop_id", "date"} |->
                        IF name = "shop_id"
                        THEN [column |-> "shop_code", value |-> cfg.shop_id]
                        ELSE [column |-> "DATE", value |-> PyStr(cfg.date)]]
    IN [database_accessor |-> database_accessor,
        table |-> cfg.table,
        lower_threshold |-> cfg.lower_threshold,
        upper_threshold |-> cfg.upper_threshold,
        monitor_only |-> cfg.monitor_only,
        status |-> "NOT_EXECUTED",
        message |-> NoMessage,
        filters |-> filters,
        shop_id |-> filters["shop_id"].value,
        date_filter_value |-> filters["date"].value.s,
        check_column |-> "*",
        name |-> assemble_name("*"),
        result |-> None]

\* what the engine can answer to the data-existence query of a check:
\* a driver error, or one row holding the empty-table marker
ProbeOutcomes(self) ==
    {[error |-> e, rows |-> <<>>] : e \in ErrorTexts}
    \cup {[error |-> "", rows |-> <<PyStr("")>>],
          [error |-> "", rows |-> <<PyStr(self.table)>>]}

\* what the engine can answer to the metric query of a check:
\* a driver error, no row, or one row holding the metric
MetricOutcomes(values) ==
    {[error |-> e, rows |-> <<>>] : e \in ErrorTexts}
    \cup {[error |-> "", rows |-> <<>>]}
    \cup {[error |-> "", rows |-> <<v>>] : v \in values}

\* data_check with the test of is_empty_table inverted
data_check_inverted(self, probe) ==
    LET is_empty_table == IF probe.error # "" THEN FALSE ELSE probe.rows[1].s # ""
        date == TodayDatetime
    IN IF is_empty_table
       THEN [self |-> self, ret |-> EmptyDict]
       ELSE [self |-> [self EXCEPT
                         !.message = <<"No data in ", "", " on ", date,
                                       " for: ", str(self.shop_id)>>,
                         !.status = "FAIL"],
             ret |-> [DATE |-> date,
                      METRIC_NAME |-> "data_exists",
                      SHOP_ID |-> self.shop_id,
                      TABLE |-> ""]]

\* DataQualityCheck.data_check
data_check(self, probe) ==
    LET is_empty_table == IF probe.error # "" THEN FALSE ELSE probe.rows[1].s # ""
        empty_table == IF probe.error # ""
                       THEN "Error while executing data check query on " \o self.table
                       ELSE ""
        date == TodayDatetime
    IN IF ~is_empty_table
       THEN [self |-> self, ret |-> EmptyDict]
       ELSE [self |-> [self EXCEPT
                         !.message = <<"No data in ", empty_table, " on ", date,
                                       " for: ", str(self.shop_id)>>,
                         !.status = "FAIL"],
             ret |-> [DATE |-> date,
                      METRIC_NAME |-> "data_exists",
                      SHOP_ID |-> self.shop_id,
                      TABLE |-> empty_table]]

\* Classify with the lower bound compared strictly (lower < value <= upper)
ClassifyStrictLower(error, monitor_only, check_value, lower_threshold, upper_threshold) ==
    IF error # "" THEN "ERROR"
    ELSE IF monitor_only THEN "MONITOR_ONLY"
    ELSE IF /\ check_value # None
            /\ FloatLeq(lower_threshold, check_value)
            /\ lower_threshold # check_value
            /\ FloatLeq(check_value, upper_threshold)
         THEN "SUCCESS"
         ELSE "FAIL"

\* Classify with monitor_only honoured only for a value the thresholds reject
ClassifyThresholdsFirst(error, monitor_only, check_value, lower_threshold, upper_threshold) ==
    IF error # "" THEN "ERROR"
    ELSE IF /\ check_value # None
            /\ FloatLeq(lower_threshold, check_value)
            /\ FloatLeq(check_value, upper_threshold)
         THEN "SUCCESS"
         ELSE IF monitor_only THEN "MONITOR_ONLY" ELSE "FAIL"

\* Classify with monitor_only tested before the error
ClassifyMonitorFirst(error, monitor_only, check_value, lower_threshold, upper_threshold) ==
    IF monitor_only THEN "MONITOR_ONLY"
    ELSE IF error # "" THEN "ERROR"
    ELSE IF /\ check_value # None
            /\ FloatLeq(lower_threshold, check_value)
            /\ FloatLeq(check_value, upper_threshold)
         THEN "SUCCESS"
         ELSE "FAIL"

\* the classification of check(): ERROR, MONITOR_ONLY, SUCCESS or FAIL
Classify(error, monitor_only, check_value, lower_threshold, upper_threshold) ==
    IF error # "" THEN "ERROR"
    ELSE IF monitor_only THEN "MONITOR_ONLY"
    ELSE IF /\ check_value # None
            /\ FloatLeq(lower_threshold, check_value)
            /\ FloatLeq(check_value, upper_threshold)
         THEN "SUCCESS"
         ELSE "FAIL"

\* DataQualityCheck.check, on the answer of the engine to the metric query
check(self, metric) ==
    LET raw == IF metric.rows # <<>> THEN metric.rows[1] ELSE None
        check_value == IF raw # None THEN float(raw) ELSE None
        result == Classify(metric.error, self.monitor_only, check_value,
                           self.lower_threshold, self.upper_threshold)
        result_dict == [DATE |-> self.date_filter_value,
                        METRIC_NAME |-> self.name,
                        SHOP_ID |-> self.shop_id,
                        TABLE |-> self.table,
                        COLUMN |-> self.check_column,
                        VALUE |-> check_value,
                        LOWER_THRESHOLD |-> self.lower_threshold,
                        UPPER_THRESHOLD |-> self.upper_threshold,
                        RESULT |-> result]
        message == IF result = "FAIL"
                   THEN <<str(self.shop_id), ": Metric ", self.name, " failed on ",
                          self.date_filter_value, " for ", self.table, ". Value ",
                          value_string(check_value), " is not between ",
                          FloatStr(self.lower_threshold),
                          " and ", FloatStr(self.upper_threshold), ".">>
                   ELSE IF result = "ERROR"
                   THEN <<str(self.shop_id), ": Metric ", self.name,
                          " query errored with ", metric.error>>
                   ELSE self.message
    IN [self |-> [self EXCEPT !.message = message, !.status = result, !.result = result_dict],
        ret |-> result_dict]

----------------------------------------------------------------------------
(* CheckExecutor *)

\* the date filter of a check: its filter named "date", None without one
date_filter(self) ==
    IF "date" \in DOMAIN self.filters THEN self.filters["date"] ELSE None

\* _get_dataset_cache_key with the filters reduced to their names and columns
_get_dataset_cache_key_no_values(self) ==
    LET date_value == IF date_filter(self) # None THEN <<date_filter(self).value>> ELSE <<>>
        filters_key == {<<name, self.filters[name].column, "", None, None>> :
                            name \in DOMAIN self.filters}
    IN <<self.table, self.database_accessor, date_value, filters_key>>

\* CheckExecutor._get_dataset_cache_key
\* (filters of this check class carry neither operator nor type: .get gives None)
_get_dataset_cache_key(self) ==
    LET date_value == IF date_filter(self) # None THEN <<date_filter(self).value>> ELSE <<>>
        filters_key == {<<name, self.filters[name].column, str(self.filters[name].value),
                          None, None>> : name \in DOMAIN self.filters}
    IN <<self.table, self.database_accessor, date_value, filters_key>>

\* RequiredTables without the grouping by table: one entry per check
RECURSIVE RequiredTablesPerCheck(_)
RequiredTablesPerCheck(cs) ==
    IF cs = <<>> THEN <<>>
    ELSE Append(RequiredTablesPerCheck(SubSeq(cs, 1, Len(cs) - 1)), cs[Len(cs)].table)

\* the keys of data_requirements (get_data_requirements), in insertion order:
\* the tables of the checks, each once, in order of first use
RECURSIVE RequiredTables(_)
RequiredTables(cs) ==
    IF cs = <<>> THEN <<>>
    ELSE LET front == RequiredTables(SubSeq(cs, 1, Len(cs) - 1))
             table == cs[Len(cs)].table
         IN IF \E i \in 1..Len(front) : front[i] = table THEN front ELSE Append(front, table)

\* the tables fetch_data_into_memory has still to load, in order: its loop has done
\* one iteration per bulk query in the log
PendingTables ==
    LET required == RequiredTables(checks)
        done == Cardinality({j \in 1..Len(queryLog) : queryLog[j].kind = "fetch"})
    IN SubSeq(required, done + 1, Len(required))

\* CacheHit that takes a cached empty dict for a miss (a test of the cached value)
CacheHitTruthy(c, cache_key) == cache_key \in DOMAIN c /\ c[cache_key] # EmptyDict

\* cache_key in self._data_existence_cache
CacheHit(c, cache_key) == cache_key \in DOMAIN c

\* CachePut that keeps only the results reporting that data exists
CachePutExistingOnly(c, cache_key, data_check_result) ==
    IF data_check_result = EmptyDict
    THEN [k \in DOMAIN c \cup {cache_key} |-> IF k = cache_key THEN data_check_result ELSE c[k]]
    ELSE c

\* self._data_existence_cache[cache_key] = data_check_result
CachePut(c, cache_key, data_check_result) ==
    [k \in DOMAIN c \cup {cache_key} |-> IF k = cache_key THEN data_check_result ELSE c[k]]

\* AppendResult that puts the record in front of the list
PrependResult(rs, r) == <<r>> \o rs

\* results.append(...)
AppendResult(rs, r) == Append(rs, r)

\* an entry of queryLog: the query (its kind, its table, the position of its check,
\* 0 for a bulk fetch) and the answer of the engine
Query(kind, table, i, answer) == [kind |-> kind, table |-> table, check |-> i, answer |-> answer]

Loaded == [error |-> "", rows |-> <<>>]

Init ==
    /\ config \in [database_accessor : Accessors, checks : SeqsUpTo(CheckConfigs, MaxChecks)]
    /\ checks = <<>>
    /\ pc = "start"
    /\ idx = 1
    /\ results = <<>>
    /\ result_dicts = <<>>
    /\ check_failed = FALSE
    /\ cache = EmptyDict
    /\ queryLog = <<>>

\* execute_checks, first loop: instantiate every declared check in declaration order
InstantiateChecks ==
    /\ pc = "start"
    /\ checks' = [i \in 1..Len(config.checks) |->
                      NewCheck(config.checks[i], config.database_accessor)]
    /\ pc' = IF config.database_accessor # "" /\ config.checks # <<>> THEN "fetch" ELSE "exec"
    /\ UNCHANGED <<config, idx, results, result_dicts, check_failed, cache, queryLog>>

\* fetch_data_into_memory, one table: the bulk query succeeds and the table is loaded
FetchTable ==
    /\ pc = "fetch"
    /\ PendingTables # <<>>
    /\ queryLog' = Append(queryLog, Query("fetch", Head(PendingTables), 0, Loaded))
    /\ pc' = IF Len(PendingTables) = 1 THEN "exec" ELSE "fetch"
    /\ UNCHANGED <<config, checks, idx, results, result_dicts, check_failed, cache>>

\* FetchFails that logs the failure and goes on with the next table
FetchFailsSwallowed ==
    /\ pc = "fetch"
    /\ PendingTables # <<>>
    /\ \E e \in ErrorTexts :
          queryLog' = Append(queryLog, Query("fetch", Head(PendingTables), 0,
                                             [error |-> e, rows |-> <<>>]))
    /\ pc' = IF Len(PendingTables) = 1 THEN "exec" ELSE "fetch"
    /\ UNCHANGED <<config, checks, idx, results, result_dicts, check_failed, cache>>

\* fetch_data_into_memory, one table: the bulk query fails, DatabaseError is raised
FetchFails ==
    /\ pc = "fetch"
    /\ PendingTables # <<>>
    /\ \E e \in ErrorTexts :
          queryLog' = Append(queryLog, Query("fetch", Head(PendingTables), 0,
                                             [error |-> e, rows |-> <<>>]))
    /\ pc' = "raised"
    /\ UNCHANGED <<config, checks, idx, results, result_dicts, check_failed, cache>>

\* execute_checks, one iteration of the evaluation loop
ExecuteCheck ==
    /\ pc = "exec"
    /\ idx <= Len(checks)
    /\ LET check_instance == checks[idx]
           cache_key == _get_dataset_cache_key(check_instance)
           hit == CacheHit(cache, cache_key)
       IN \E probe \in IF hit THEN {Loaded}
                       ELSE ProbeOutcomes(check_instance) :
          LET dc == IF hit THEN [self |-> check_instance, ret |-> cache[cache_key]]
                    ELSE data_check(check_instance, probe)
              data_check_result == dc.ret
              log1 == IF hit THEN queryLog
                      ELSE Append(queryLog, Query("probe", check_instance.table, idx, probe))
          IN /\ cache' = IF hit THEN cache ELSE CachePut(cache, cache_key, data_check_result)
             /\ IF data_check_result # EmptyDict
                THEN /\ results' = AppendResult(results, data_check_result)
                     /\ checks' = [checks EXCEPT ![idx] = dc.self]
                     /\ queryLog' = log1
                ELSE \E metric \in MetricOutcomes(RunValues) :
                        LET c == check(dc.self, metric)
                        IN /\ results' = AppendResult(results, c.ret)
                           /\ checks' = [checks EXCEPT ![idx] = c.self]
                           /\ queryLog' = Append(log1, Query("metric", check_instance.table, idx, metric))
    /\ idx' = idx + 1
    /\ UNCHANGED <<config, pc, result_dicts, check_failed>>

\* AnyFailed that looks for the status FAIL only
AnyFailedNoError(cs) == \E i \in 1..Len(cs) : cs[i].status = "FAIL"

\* AnyFailed that leaves the monitor_only checks out
AnyFailedNotMonitored(cs) ==
    \E i \in 1..Len(cs) : cs[i].status \in {"FAIL", "ERROR"} /\ ~cs[i].monitor_only

\* any(check.status in ("FAIL", "ERROR") for check in self.checks)
AnyFailed(cs) == \E i \in 1..Len(cs) : cs[i].status \in {"FAIL", "ERROR"}

\* execute_checks, after the loop: derive check_failed and publish the results
Finish ==
    /\ pc = "exec"
    /\ idx > Len(checks)
    /\ check_failed' = AnyFailed(checks)
    /\ result_dicts' = results
    /\ pc' = "done"
    /\ UNCHANGED <<config, checks, idx, results, cache, queryLog>>

\* DataQualityCheck.__call__ on a check object of its own: the probe, then the metric
CallCheck ==
    /\ pc = "call"
    /\ \E probe \in ProbeOutcomes(checks[1]) :
          LET dc == data_check(checks[1], probe)
              log1 == Append(queryLog, Query("probe", checks[1].table, 1, probe))
          IN IF dc.ret # EmptyDict
             THEN /\ results' = <<dc.ret>>
                  /\ checks' = <<dc.self>>
                  /\ queryLog' = log1
             ELSE \E metric \in MetricOutcomes(CallValues) :
                     LET c == check(dc.self, metric)
                     IN /\ results' = <<c.ret>>
                        /\ checks' = <<c.self>>
                        /\ queryLog' = Append(log1, Query("metric", checks[1].table, 1, metric))
    /\ pc' = "called"
    /\ UNCHANGED <<config, idx, result_dicts, check_failed, cache>>

InitCheck ==
    /\ config \in [database_accessor : {""}, checks : {<<c>> : c \in SingleCheckConfigs}]
    /\ checks = <<NewCheck(config.checks[1], config.database_accessor)>>
    /\ pc = "call"
    /\ idx = 1
    /\ results = <<>>
    /\ result_dicts = <<>>
    /\ check_failed = FALSE
    /\ cache = EmptyDict
    /\ queryLog = <<>>

NextCheck == CallCheck

SpecCheck == InitCheck /\ [][NextCheck]_vars

Next == InstantiateChecks \/ FetchTable \/ FetchFails \/ ExecuteCheck \/ Finish

Spec == Init /\ [][Next]_vars

----------------------------------------------------------------------------
(* Vocabulary of the properties *)

Range(f) == {f[i] : i \in DOMAIN f}

\* positions of queryLog holding a query of the given kind of the check at position i
Entries(kind, i) ==
    {p \in 1..Len(queryLog) : queryLog[p].kind = kind /\ queryLog[p].check = i}

\* the metric query of check i was executed / was answered without error / raised
MetricRan(i) == Entries("metric", i) # {}
MetricSucceeded(i) == \E p \in Entries("metric", i) : queryLog[p].answer.error = ""
MetricRaised(i) == \E p \in Entries("metric", i) : queryLog[p].answer.error # ""

\* the value the engine returned for the metric of check i, as a float; None without one
ReturnedValue(i) ==
    LET a == queryLog[CHOOSE p \in Entries("metric", i) : TRUE].answer
    IN IF a.rows = <<>> \/ a.rows[1] = None THEN None ELSE Float(a.rows[1].n)

\* lower <= v <= upper for a finite v, written out for infinite bounds
Within(lower, v, upper) ==
    /\ lower = NegInf \/ (~IsInf(lower) /\ lower.n <= v.n)
    /\ upper = PosInf \/ (~IsInf(upper) /\ v.n <= upper.n)

Terminal == {"ERROR", "FAIL", "SUCCESS", "MONITOR_ONLY"}

\* the checks the evaluation loop has been through
Evaluated == 1..Len(results)

----------------------------------------------------------------------------
(* Properties *)

\* C1: when the metric query of a check succeeds and monitor_only is false, RESULT
\* is SUCCESS if and only if the value is non-null and lies between the declared
\* lower and upper threshold, both inclusive, infinite bounds included; otherwise
\* it is FAIL, so a null value yields FAIL.
C1_ThresholdClassification ==
    (pc = "called" /\ MetricSucceeded(1) /\ ~config.checks[1].monitor_only) =>
        LET r == results[1]
            lower == config.checks[1].lower_threshold
            upper == config.checks[1].upper_threshold
            v == ReturnedValue(1)
        IN /\ r.VALUE = v
           /\ r.LOWER_THRESHOLD = lower /\ r.UPPER_THRESHOLD = upper
           /\ r.RESULT \in {"SUCCESS", "FAIL"}
           /\ (r.RESULT = "SUCCESS") <=> (v # None /\ Within(lower, v, upper))
           /\ checks[1].status = r.RESULT

\* a value equal to the finite lower threshold under an infinite upper threshold passes
C1_Witness ==
    /\ pc = "called" /\ MetricSucceeded(1) /\ ~config.checks[1].monitor_only
    /\ config.checks[1].lower_threshold = Float(1)
    /\ config.checks[1].upper_threshold = PosInf
    /\ results[1].VALUE = Float(1)
    /\ results[1].RESULT = "SUCCESS"

C8_MonitorOnly ==
    LET Monitored(i) == config.checks[i].monitor_only /\ MetricSucceeded(i)
    IN /\ \A i \in 1..Len(checks) : Monitored(i) =>
              /\ results[i].RESULT = "MONITOR_ONLY"
              /\ checks[i].status = "MONITOR_ONLY"
              /\ results[i].VALUE = ReturnedValue(i)
              /\ checks[i].message = NoMessage
       /\ (pc = "done" /\ check_failed) =>
              \E i \in 1..Len(checks) : ~Monitored(i) /\ checks[i].status \in {"FAIL", "ERROR"}

\* a monitor_only check with a value inside, one with a value outside the thresholds
C8_Witness ==
    /\ pc = "done" /\ Len(checks) = 2 /\ ~check_failed
    /\ config.checks[1].monitor_only /\ config.checks[2].monitor_only
    /\ MetricSucceeded(1) /\ MetricSucceeded(2)
    /\ result_dicts[1].VALUE = Float(0) /\ result_dicts[1].RESULT = "MONITOR_ONLY"
    /\ result_dicts[2].VALUE = Float(1) /\ result_dicts[2].RESULT = "MONITOR_ONLY"

\* the dataset of a declared check, as the cache distinguishes datasets: table,
\* accessor, date value and the signature (name, column, string of the value) of
\* each filter
DatasetOf(i) ==
    LET c == config.checks[i]
    IN <<c.table, config.database_accessor, c.date,
         {<<"shop_id", "shop_code", str(c.shop_id)>>, <<"date", "DATE", c.date>>}>>

\* the probe answered that there is no data
ReportsMissing(answer) == answer.error = "" /\ answer.rows[1].s # ""

\* the data-existence result the executor used for the evaluated check i: that of the
\* one probe of its dataset
ProbeUsed(i) ==
    CHOOSE p \in 1..Len(queryLog) :
        queryLog[p].kind = "probe" /\ DatasetOf(queryLog[p].check) = DatasetOf(i)

IsMissingDataRecord(r) == r.METRIC_NAME \in {"data_exists", "table_exists"}

C3_OneProbePerDataset ==
    /\ \A p, q \in 1..Len(queryLog) :
          (/\ queryLog[p].kind = "probe" /\ queryLog[q].kind = "probe"
           /\ DatasetOf(queryLog[p].check) = DatasetOf(queryLog[q].check)) => p = q
    /\ \A i \in Evaluated :
          LET first == CHOOSE j \in Evaluated :
                          /\ DatasetOf(j) = DatasetOf(i)
                          /\ \A k \in Evaluated : DatasetOf(k) = DatasetOf(i) => j <= k
          IN /\ Cardinality(Entries("probe", first)) = 1
             /\ i # first => Entries("probe", i) = {}

\* two checks share a dataset that has data: one probe, two metric queries
C3_Witness ==
    /\ pc = "done" /\ Len(checks) = 2
    /\ DatasetOf(1) = DatasetOf(2)
    /\ Cardinality(Entries("probe", 1)) = 1 /\ Entries("probe", 2) = {}
    /\ MetricRan(1) /\ MetricRan(2)

\* the declared checks i and j read the same table on the same date and differ in
\* the value of their identifier (shop_id) filter
DifferInIdentifierOnly(i, j) ==
    /\ config.checks[i].table = config.checks[j].table
    /\ config.checks[i].date = config.checks[j].date
    /\ config.checks[i].shop_id # config.checks[j].shop_id

\* the probes issued by a check declared on the table and date of check i with
\* the identifier value of check i
ProbesOfIdentifier(i) ==
    {p \in 1..Len(queryLog) :
        /\ queryLog[p].kind = "probe"
        /\ config.checks[queryLog[p].check].table = config.checks[i].table
        /\ config.checks[queryLog[p].check].date = config.checks[i].date
        /\ config.checks[queryLog[p].check].shop_id = config.checks[i].shop_id}

\* C4: two checks on the same table, accessor and date whose filters differ only in
\* the value of the identifier filter have different cache keys, and a run with
\* both issues one probe for each of the two identifier values: neither check
\* uses the probe result of the other.
C4_IdentifierPartitionsCache ==
    \A i, j \in Evaluated : DifferInIdentifierOnly(i, j) =>
        /\ _get_dataset_cache_key(checks[i]) # _get_dataset_cache_key(checks[j])
        /\ Cardinality(ProbesOfIdentifier(i)) = 1
        /\ Cardinality(ProbesOfIdentifier(j)) = 1
        /\ ProbesOfIdentifier(i) \cap ProbesOfIdentifier(j) = {}

\* two checks on the same table and date with identifiers SHOP001 and SHOP002, the
\* first dataset empty, the second not: two probes, the second check runs its metric
C4_Witness ==
    /\ pc = "done" /\ Len(checks) = 2
    /\ DifferInIdentifierOnly(1, 2)
    /\ Cardinality(Entries("probe", 1)) = 1 /\ Cardinality(Entries("probe", 2)) = 1
    /\ IsMissingDataRecord(result_dicts[1]) /\ MetricRan(2)

\* C5: when a check of a dataset recorded a missing-data result, every later check
\* of the same dataset gets a record of its own in the results that equals it in
\* DATE, METRIC_NAME, identifier and TABLE, and no query is executed for it.
C5_CachedMissingDataRecord ==
    \A i, j \in Evaluated :
        (i < j /\ DatasetOf(i) = DatasetOf(j) /\ IsMissingDataRecord(results[i])) =>
            /\ IsMissingDataRecord(results[j])
            /\ results[j].DATE = results[i].DATE
            /\ results[j].METRIC_NAME = results[i].METRIC_NAME
            /\ results[j].SHOP_ID = results[i].SHOP_ID
            /\ results[j].TABLE = results[i].TABLE
            /\ Entries("probe", j) = {} /\ Entries("metric", j) = {}

\* two checks of one dataset without data: two records, the one probe of the first
C5_Witness ==
    /\ pc = "done" /\ Len(checks) = 2
    /\ DatasetOf(1) = DatasetOf(2)
    /\ IsMissingDataRecord(result_dicts[1]) /\ IsMissingDataRecord(result_dicts[2])
    /\ Len(queryLog) = 1 /\ queryLog[1].kind = "probe" /\ queryLog[1].check = 1

\* C6: when execute_checks returns, the status of every declared check is one of
\* ERROR, FAIL, SUCCESS, MONITOR_ONLY, for a probed and for a cached data-existence
\* result alike; and a status that is one of the four does not change any more.
C6_EveryCheckTerminal ==
    [][/\ pc' = "done" => \A i \in 1..Len(checks') : checks'[i].status \in Terminal
       /\ \A i \in 1..Len(checks) :
             checks[i].status \in Terminal => checks'[i].status = checks[i].status]_vars

\* C9: checks are instantiated and evaluated one at a time in declaration order:
\* the i-th check object is the i-th declared check, the i-th record is the outcome
\* of the i-th declared check, after a normal run result_dicts holds one record
\* per declared check, and the queries of a check never precede a query of an
\* earlier check (a probe precedes the metric query of its check).
C9_DeclarationOrder ==
    /\ \A i \in 1..Len(checks) :
          /\ checks[i].table = config.checks[i].table
          /\ checks[i].shop_id = config.checks[i].shop_id
          /\ checks[i].monitor_only = config.checks[i].monitor_only
    /\ \A p, q \in 1..Len(queryLog) :
          (p < q /\ queryLog[p].kind # "fetch" /\ queryLog[q].kind # "fetch") =>
              /\ queryLog[p].check <= queryLog[q].check
              /\ queryLog[p].check = queryLog[q].check =>
                    (queryLog[p].kind = "probe" /\ queryLog[q].kind = "metric")
    /\ \A p \in 1..Len(queryLog) : queryLog[p].kind # "fetch" => queryLog[p].check \in Evaluated
    /\ \A i \in Evaluated :
          IF MetricRan(i)
          THEN /\ results[i] = checks[i].result
               /\ results[i].METRIC_NAME = "row_count"
               /\ results[i].TABLE = config.checks[i].table
               /\ results[i].SHOP_ID = config.checks[i].shop_id
               /\ results[i].VALUE = ReturnedValue(i)
          ELSE /\ IsMissingDataRecord(results[i])
               /\ str(results[i].SHOP_ID) = str(config.checks[i].shop_id)
    /\ pc = "done" => (result_dicts = results /\ Len(result_dicts) = Len(config.checks))

\* two checks of different datasets, the first without data, the second evaluated
C9_Witness ==
    /\ pc = "done" /\ Len(checks) = 2
    /\ DatasetOf(1) # DatasetOf(2)
    /\ IsMissingDataRecord(result_dicts[1])
    /\ result_dicts[2].METRIC_NAME = "row_count"
    /\ result_dicts[2].SHOP_ID = config.checks[2].shop_id
    /\ Len(queryLog) = 3

\* C10: with a database accessor configured, the bulk fetch of every table the
\* declared checks read is executed before the first probe or metric query of any
\* check, and each such table is bulk-fetched exactly once in the run, however
\* many checks read it.
C10_BulkFetchFirst ==
    LET Fetches(t) == {p \in 1..Len(queryLog) :
                          queryLog[p].kind = "fetch" /\ queryLog[p].table = t}
    IN config.database_accessor # "" =>
        /\ \A p, q \in 1..Len(queryLog) :
              (p < q /\ queryLog[q].kind = "fetch") => queryLog[p].kind = "fetch"
        /\ \A i \in 1..Len(config.checks) :
              /\ Cardinality(Fetches(config.checks[i].table)) <= 1
              /\ (pc \in {"exec", "done"}) =>
                    (/\ Cardinality(Fetches(config.checks[i].table)) = 1
                     /\ \A p \in Fetches(config.checks[i].table) : queryLog[p].answer.error = "")
        /\ (\E p \in 1..Len(queryLog) : queryLog[p].kind # "fetch") => pc \in {"exec", "done"}

\* two checks read the same table: one bulk fetch, then their probes
C10_Witness ==
    /\ pc = "done" /\ Len(checks) = 2
    /\ config.database_accessor # ""
    /\ config.checks[1].table = config.checks[2].table
    /\ queryLog[1].kind = "fetch"
    /\ Cardinality({p \in 1..Len(queryLog) : queryLog[p].kind = "fetch"}) = 1
    /\ Cardinality({p \in 1..Len(queryLog) : queryLog[p].kind = "probe"}) = 2

----------------------------------------------------------------------------
(* The data-requirement planner and the bulk fetch                          *)
(* (CheckExecutor.get_data_requirements, fetch_data_into_memory), called on *)
(* an executor holding checks with typed filters.                           *)

TwoDigits(d) == IF d < 10 THEN "0" \o Digit(d) ELSE IntToStr(d)

\* date.isoformat() of the d-th day of January 2023, and dt.datetime.fromisoformat
IsoDate(d) == "2023-01-" \o TwoDigits(d)
Days == 1..31
fromisoformat(s) == CHOOSE d \in Days : IsoDate(d) = s

\* the filters of a planned check: an optional date filter, an optional identifier filter
FilterDates == {"", "2023-01-15", "2023-01-16"}
FilterShops == {"", "SHOP001", "SHOP002"}

TypedFilters(date, shop) ==
    [name \in (IF date = "" THEN {} ELSE {"date"}) \cup (IF shop = "" THEN {} ELSE {"shop_id"}) |->
        IF name = "date"
        THEN [column |-> "DATE", value |-> PyStr(date), type |-> "date"]
        ELSE [column |-> "shop_code", value |-> PyStr(shop), type |-> "identifier"]]

\* the checks handed to the planner: their class, their table, their filters and
\* the window parameter of the class (rolling_days, interval_days)
PlannedKinds ==
    {[kind |-> "CountCheck", rolling_days |-> 0, interval_days |-> 0],
     [kind |-> "RelCountChangeCheck", rolling_days |-> 2, interval_days |-> 0],
     [kind |-> "IqrOutlierCheck", rolling_days |-> 0, interval_days |-> 3],
     [kind |-> "RollingValuesInSetCheck", rolling_days |-> 0, interval_days |-> 0]}

PlannedChecks ==
    {[kind |-> k.kind, table |-> "orders", database_accessor |-> "bq",
      filters |-> TypedFilters(d, s),
      rolling_days |-> k.rolling_days, interval_days |-> k.interval_days,
      status |-> "NOT_EXECUTED"] :
        k \in PlannedKinds, d \in FilterDates, s \in FilterShops}

\* the rows of the source table
SourceRows == [DATE : {IsoDate(d) : d \in 1..17}, shop_code : {"SHOP001", "SHOP002"}]

\* window_days of get_data_requirements
window_days(self) ==
    CASE self.kind = "RelCountChangeCheck" -> self.rolling_days
      [] self.kind = "IqrOutlierCheck" -> self.interval_days
      [] self.kind = "RollingValuesInSetCheck" -> 14
      [] OTHER -> 0

\* filter_key of get_data_requirements: the filters of the check as a hashable
\* group, without the date-type filters for an IqrOutlierCheck
filter_key(self) ==
    LET names == IF self.kind = "IqrOutlierCheck"
                 THEN {k \in DOMAIN self.filters : self.filters[k].type # "date"}
                 ELSE DOMAIN self.filters
    IN {<<name, self.filters[name]>> : name \in names}

\* filter_key_between of get_data_requirements: the BETWEEN group of a check with
\* a date filter and a positive window (the date value is an ISO date, so
\* fromisoformat does not raise)
filter_key_between(self) ==
    LET date_val == date_filter(self).value.s
        start_iso == IsoDate(fromisoformat(date_val) - window_days(self))
    IN {<<"__date_range__",
          [column |-> date_filter(self).column, operator |-> "BETWEEN",
           value |-> [py |-> "tuple", items |-> <<start_iso, date_val>>], type |-> "date"]>>}

\* data_requirements[table]["filters"] of get_data_requirements
get_data_requirements(cs, table) ==
    LET on_table == {i \in 1..Len(cs) : cs[i].table = table}
        groups(self) ==
            {filter_key(self)}
            \cup (IF date_filter(self) # None /\ window_days(self) > 0
                  THEN {filter_key_between(self)} ELSE {})
    IN UNION {groups(cs[i]) : i \in on_table}

\* DataQualityCheck.assemble_where_statement: the conditions it joins with AND
assemble_where_statement(filters) ==
    {[column |-> filters[name].column, operator |-> "=", value |-> str(filters[name].value)] :
        name \in DOMAIN filters}

\* date_filters_sql of fetch_data_into_memory: one condition per date range and
\* one per group holding date-type filters
date_filters_sql(filter_groups) ==
    {[between |-> item[2].column, start |-> item[2].value.items[1], end |-> item[2].value.items[2]] :
        item \in {it \in UNION filter_groups : it[1] = "__date_range__"}}
    \cup
    {[and |-> assemble_where_statement(
                  [name \in {it[1] : it \in {x \in g : x[1] # "__date_range__" /\ x[2].type = "date"}} |->
                      (CHOOSE it \in g : it[1] = name)[2]])] :
        g \in {h \in filter_groups :
                  \E x \in h : x[1] # "__date_range__" /\ x[2].type = "date"}}

\* other_filters_sql of fetch_data_into_memory: one condition per group holding
\* filters that are not of date type
other_filters_sql(filter_groups) ==
    {[and |-> assemble_where_statement(
                  [name \in {it[1] : it \in {x \in g : x[1] # "__date_range__" /\ x[2].type # "date"}} |->
                      (CHOOSE it \in g : it[1] = name)[2]])] :
        g \in {h \in filter_groups :
                  \E x \in h : x[1] # "__date_range__" /\ x[2].type # "date"}}

\* final_where_clause of fetch_data_into_memory: the date conditions joined by OR,
\* the other conditions joined by OR, the two parts joined by AND; a part without
\* condition is left out
final_where_clause(filter_groups) ==
    [date_part |-> date_filters_sql(filter_groups),
     other_part |-> other_filters_sql(filter_groups)]

\* the engine evaluating one condition of the bulk query on a row
Holds(cond, row) ==
    IF "between" \in DOMAIN cond
    THEN /\ fromisoformat(cond.start) <= fromisoformat(row[cond.between])
         /\ fromisoformat(row[cond.between]) <= fromisoformat(cond.end)
    ELSE \A term \in cond.and : row[term.column] = term.value

\* the engine evaluating the WHERE clause of the bulk query on a row
Selects(where, row) ==
    /\ where.date_part = {} \/ \E cond \in where.date_part : Holds(cond, row)
    /\ where.other_part = {} \/ \E cond \in where.other_part : Holds(cond, row)

\* the executor holds the planned checks
InitPlan ==
    /\ config = [database_accessor |-> "bq", checks |-> <<>>]
    /\ checks \in SeqsUpTo(PlannedChecks, MaxChecks)
    /\ pc = "plan"
    /\ idx = 1
    /\ results = <<>>
    /\ result_dicts = <<>>
    /\ check_failed = FALSE
    /\ cache = EmptyDict
    /\ queryLog = <<>>

\* fetch_data_into_memory(get_data_requirements()): one bulk query per table
PlanAndFetch ==
    /\ pc = "plan"
    /\ queryLog' = [t \in 1..Len(RequiredTables(checks)) |->
                       [kind |-> "fetch", table |-> RequiredTables(checks)[t], check |-> 0,
                        answer |-> Loaded,
                        where |-> final_where_clause(
                                      get_data_requirements(checks, RequiredTables(checks)[t]))]]
    /\ pc' = "fetched"
    /\ UNCHANGED <<config, checks, idx, results, result_dicts, check_failed, cache>>

NextPlan == PlanAndFetch

SpecPlan == InitPlan /\ [][NextPlan]_vars

\* the bulk queries of the log
Fetches == {p \in 1..Len(queryLog) : queryLog[p].kind = "fetch"}

\* the row satisfies every filter of the check / every filter that is not its date filter
InSlice(self, row) ==
    \A name \in DOMAIN self.filters :
        row[self.filters[name].column] = self.filters[name].value.s
MatchesNonDateFilters(self, row) ==
    \A name \in DOMAIN self.filters :
        self.filters[name].type # "date" =>
            row[self.filters[name].column] = self.filters[name].value.s

\* C11: a row of a table that satisfies all filters of at least one check on the
\* table (a check without filters, with a date filter only or with non-date
\* filters only included) satisfies the WHERE clause of the bulk query of the table.
C11_BulkFetchCoversEverySlice ==
    \A p \in Fetches : \A i \in 1..Len(checks) : \A row \in SourceRows :
        (checks[i].table = queryLog[p].table /\ InSlice(checks[i], row)) =>
            Selects(queryLog[p].where, row)

\* the check is rolling-style and has a date filter
Rolling(self) == window_days(self) > 0 /\ date_filter(self) # None

\* the day of the row lies in the window [D-N, D] of the rolling-style check
InWindow(self, row) ==
    LET D == fromisoformat(date_filter(self).value.s)
        day == fromisoformat(row[date_filter(self).column])
    IN D - window_days(self) <= day /\ day <= D

\* the day of the row is the date, or lies in the date range, some check asks for
InRequestedDates(cs, row) ==
    \E i \in 1..Len(cs) :
        /\ date_filter(cs[i]) # None
        /\ \/ row[date_filter(cs[i]).column] = date_filter(cs[i]).value.s
           \/ Rolling(cs[i]) /\ InWindow(cs[i], row)

\* C12: for a rolling-style check with date D and window N the bulk-fetched
\* relation holds every source row that matches the non-date filters of the check
\* and whose date lies in [D-N, D], and holds no row whose date lies outside every
\* requested date and date range or that matches the non-date filters of no check.
C12_RollingWindowFetched ==
    \A p \in Fetches : \A i \in 1..Len(checks) :
        (checks[i].table = queryLog[p].table /\ Rolling(checks[i])) =>
            \A row \in SourceRows :
                /\ (MatchesNonDateFilters(checks[i], row) /\ InWindow(checks[i], row)) =>
                       Selects(queryLog[p].where, row)
                /\ Selects(queryLog[p].where, row) =>
                       /\ InRequestedDates(checks, row)
                       /\ \E j \in 1..Len(checks) : MatchesNonDateFilters(checks[j], row)

----------------------------------------------------------------------------
(* The outcome of a run *)

\* the bulk query of position p failed
FetchFailed(p) == queryLog[p].kind = "fetch" /\ queryLog[p].answer.error # ""

\* C13: when the bulk query of a table fails, execute_checks raises and the run
\* is over: the failed query is the last query of the run, no probe and no metric
\* query of any check is executed, every check is still NOT_EXECUTED, results and
\* result_dicts are empty and check_failed is not set.
C13_FetchFailureAborts ==
    /\ (\E p \in 1..Len(queryLog) : FetchFailed(p)) <=> pc = "raised"
    /\ pc = "raised" =>
          /\ FetchFailed(Len(queryLog))
          /\ \A p \in 1..Len(queryLog) : queryLog[p].kind = "fetch"
          /\ \A i \in 1..Len(checks) : checks[i].status = "NOT_EXECUTED"
          /\ Len(checks) = Len(config.checks)
          /\ results = <<>> /\ result_dicts = <<>> /\ cache = EmptyDict
          /\ ~check_failed

\* two checks on two tables: the first table is loaded, the bulk query of the second fails
C13_Witness ==
    /\ pc = "raised" /\ Len(checks) = 2
    /\ Len(queryLog) = 2 /\ ~FetchFailed(1) /\ FetchFailed(2)
    /\ queryLog[1].table # queryLog[2].table

\* the record of the evaluated check i reports a failure: missing data, a
\* threshold violation or an error
FailingRecord(r) ==
    IF IsMissingDataRecord(r) THEN TRUE ELSE r.RESULT \in {"FAIL", "ERROR"}

\* C16: after execute_checks returns, check_failed is true if and only if at
\* least one declared check resolved to FAIL (threshold violation or missing data)
\* or to ERROR; it is false when every check resolved to SUCCESS or MONITOR_ONLY.
C16_CheckFailedIff ==
    pc = "done" =>
        /\ check_failed <=> \E i \in 1..Len(result_dicts) : FailingRecord(result_dicts[i])
        /\ check_failed <=> \E i \in 1..Len(checks) : checks[i].status \in {"FAIL", "ERROR"}
        /\ (\A i \in 1..Len(result_dicts) :
               /\ ~IsMissingDataRecord(result_dicts[i])
               /\ result_dicts[i].RESULT \in {"SUCCESS", "MONITOR_ONLY"}) => ~check_failed

\* a run whose only failure is an ERROR, next to a SUCCESS
C16_Witness ==
    /\ pc = "done" /\ Len(checks) = 2 /\ check_failed
    /\ MetricRan(1) /\ MetricRan(2)
    /\ result_dicts[1].RESULT = "SUCCESS" /\ result_dicts[2].RESULT = "ERROR"

\* a run of two checks without failure: a SUCCESS and a MONITOR_ONLY
C16_WitnessAllPass ==
    /\ pc = "done" /\ Len(checks) = 2 /\ ~check_failed
    /\ MetricRan(1) /\ MetricRan(2)
    /\ result_dicts[1].RESULT = "SUCCESS" /\ result_dicts[2].RESULT = "MONITOR_ONLY"

----------------------------------------------------------------------------
(* The aggregation of missing-data records and messages                     *)
(* (CheckExecutor._aggregate_result_dicts, _aggregate_checks_msgs).         *)
(* A text is a sequence of tokens; ":" and " " are tokens of their own.     *)

RECURSIVE Concat(_)
Concat(tokens) == IF tokens = <<>> THEN "" ELSE Head(tokens) \o Concat(Tail(tokens))

\* the texts the aggregation sorts, in the order of Python's string comparison
StringOrder == <<"00:00 for: SHOP001", "SHOP001", "SHOP002">>
Rank(text) == CHOOSE i \in 1..Len(StringOrder) : StringOrder[i] = Concat(text)

\* sorted(values) of a set of texts
RECURSIVE sorted(_)
sorted(values) ==
    IF values = {} THEN <<>>
    ELSE LET least == CHOOSE v \in values : \A w \in values : Rank(v) <= Rank(w)
         IN <<least>> \o sorted(values \ {least})

\* ", ".join(texts)
RECURSIVE join(_)
join(texts) ==
    IF texts = <<>> THEN <<>>
    ELSE IF Len(texts) = 1 THEN texts[1]
    ELSE texts[1] \o <<", ">> \o join(Tail(texts))

\* aggregate_values without the sort: the distinct values in order of first occurrence
RECURSIVE FirstOccurrences(_)
FirstOccurrences(list) ==
    IF list = <<>> THEN <<>>
    ELSE LET front == FirstOccurrences(SubSeq(list, 1, Len(list) - 1))
             last == list[Len(list)]
         IN IF \E i \in 1..Len(front) : front[i] = last THEN front ELSE Append(front, last)
aggregate_values_unsorted(value_list) == join(FirstOccurrences(value_list))

\* CheckExecutor.aggregate_values
aggregate_values(value_list) == join(sorted(Range(value_list)))

\* the records handed to _aggregate_result_dicts: missing-data records as data_check
\* builds them, and records of a metric as check builds them
RecordDates == {"2023-01-01", "2023-01-02"}
MissingDataRecords ==
    [DATE : RecordDates, METRIC_NAME : {"data_exists", "table_exists"},
     SHOP_ID : {PyStr("SHOP001"), PyStr("SHOP002")}, TABLE : {"", "orders"}]
MetricRecords ==
    {[DATE |-> "2023-01-01", METRIC_NAME |-> "row_count", SHOP_ID |-> PyStr("SHOP001"),
      TABLE |-> "orders", COLUMN |-> "*", VALUE |-> v,
      LOWER_THRESHOLD |-> Float(1), UPPER_THRESHOLD |-> Float(1), RESULT |-> r] :
        <<v, r>> \in {<<Float(1), "SUCCESS">>, <<None, "FAIL">>}}

\* CheckExecutor._aggregate_result_dicts (the records of checks.py carry the
\* identifier under SHOP_ID)
_aggregate_result_dicts(rs) ==
    LET NoData(r) == r.METRIC_NAME \in {"data_exists", "table_exists"}
        Other(r) == ~NoData(r)
        result_other == SelectSeq(rs, Other)
        result_no_data == SelectSeq(rs, NoData)
        key(r) == <<r.DATE, r.METRIC_NAME, r.TABLE>>
        keys == FirstOccurrences([i \in 1..Len(result_no_data) |-> key(result_no_data[i])])
        OfKey(k) == LET Same(r) == key(r) = k IN SelectSeq(result_no_data, Same)
        _identifier_values(k) == [i \in 1..Len(OfKey(k)) |-> <<OfKey(k)[i].SHOP_ID.s>>]
    IN IF result_no_data = <<>> THEN result_other
       ELSE [g \in 1..Len(keys) |->
                [DATE |-> keys[g][1],
                 METRIC_NAME |-> keys[g][2],
                 TABLE |-> keys[g][3],
                 SHOP_ID |-> PyStr(Concat(aggregate_values(_identifier_values(keys[g])))),
                 COLUMN |-> None,
                 VALUE |-> None,
                 LOWER_THRESHOLD |-> None,
                 UPPER_THRESHOLD |-> None,
                 RESULT |-> "FAIL"]] \o result_other

\* the messages of the checks handed to _aggregate_checks_msgs
MessagePrefixes == {<<"No data", " in orders on 2023-01-01 for">>,
                    <<"No data", " in feed on 2023-01-01 for">>}
MessageTails == {<<" ", "SHOP001">>, <<" ", "SHOP002">>, <<" ", "SHOP002", " ">>,
                 <<"00", ":", "00 for", ":", " ", "SHOP001">>}
Messages ==
    {p \o <<":">> \o t : p \in MessagePrefixes, t \in MessageTails}
    \cup {<<"No data", " in orders on 2023-01-01">>,
          <<"SHOP001", ":", " Metric row_count failed">>,
          <<"Warning", ":", " ", "No data">>}

\* msg.startswith("No data")
startswith_No_data(msg) == msg # <<>> /\ msg[1] = "No data"

\* text.strip()
RECURSIVE strip(_)
strip(text) ==
    IF text # <<>> /\ Head(text) = " " THEN strip(Tail(text))
    ELSE IF text # <<>> /\ text[Len(text)] = " " THEN strip(SubSeq(text, 1, Len(text) - 1))
    ELSE text

Colons(msg) == {i \in 1..Len(msg) : msg[i] = ":"}

\* split that cuts at the last colon (msg.rsplit(":", 1))
rsplit(msg) ==
    IF Colons(msg) = {} THEN <<msg>>
    ELSE LET c == CHOOSE i \in Colons(msg) : \A j \in Colons(msg) : j <= i
         IN <<SubSeq(msg, 1, c - 1), SubSeq(msg, c + 1, Len(msg))>>

\* msg.split(":", 1)
split(msg) ==
    IF Colons(msg) = {} THEN <<msg>>
    ELSE LET c == CHOOSE i \in Colons(msg) : \A j \in Colons(msg) : i <= j
         IN <<SubSeq(msg, 1, c - 1), SubSeq(msg, c + 1, Len(msg))>>

\* CheckExecutor._aggregate_checks_msgs
_aggregate_checks_msgs(msg_list) ==
    LET Other(msg) == ~startswith_No_data(msg)
        Parted(msg) == Len(split(msg)) = 2
        msgs_other == SelectSeq(msg_list, Other)
        msgs_no_data == SelectSeq(SelectSeq(msg_list, startswith_No_data), Parted)
        table_parts == FirstOccurrences([i \in 1..Len(msgs_no_data) |-> split(msgs_no_data[i])[1]])
        OfPart(tp) == LET Same(msg) == split(msg)[1] = tp IN SelectSeq(msgs_no_data, Same)
        identifiers(tp) == [i \in 1..Len(OfPart(tp)) |-> strip(split(OfPart(tp)[i])[2])]
    IN [g \in 1..Len(table_parts) |->
            table_parts[g] \o <<":", " ">> \o aggregate_values(identifiers(table_parts[g]))]
       \o msgs_other

\* the messages of the check objects: get_failed_checks_msg leaves out a check without one
failed_checks_msgs(cs) ==
    LET Set(c) == c.message # NoMessage
        with_message == SelectSeq(cs, Set)
    IN [i \in 1..Len(with_message) |-> with_message[i].message]

\* an executor after a run: it holds the records of the run, or checks with their messages
InitAggregate ==
    /\ \/ /\ config \in [database_accessor : Accessors, checks : {<<>>}]
          /\ result_dicts \in SeqsUpTo(MissingDataRecords \cup MetricRecords, MaxRecords)
          /\ checks = <<>>
          /\ pc = "records"
       \/ /\ config = [database_accessor |-> "", checks |-> <<>>]
          /\ result_dicts = <<>>
          /\ checks \in SeqsUpTo([message : Messages \cup {NoMessage}], MaxRecords)
          /\ pc = "messages"
    /\ idx = 1
    /\ results = <<>>
    /\ check_failed = FALSE
    /\ cache = EmptyDict
    /\ queryLog = <<>>

\* _aggregate_result_dicts(self.result_dicts); `results` holds the returned list
AggregateResultDicts ==
    /\ pc = "records"
    /\ results' = _aggregate_result_dicts(result_dicts)
    /\ pc' = "records_aggregated"
    /\ UNCHANGED <<config, checks, idx, result_dicts, check_failed, cache, queryLog>>

\* _aggregate_checks_msgs of the messages of the checks; `results` holds the returned list
AggregateChecksMsgs ==
    /\ pc = "messages"
    /\ results' = _aggregate_checks_msgs(failed_checks_msgs(checks))
    /\ pc' = "messages_aggregated"
    /\ UNCHANGED <<config, checks, idx, result_dicts, check_failed, cache, queryLog>>

\* row[key] = value on a dict
SetItem(row, key, value) ==
    [k \in DOMAIN row \cup {key} |-> IF k = key THEN value ELSE row[k]]

\* the positions of result_dicts whose dict object is itself an element of the
\* list _aggregate_result_dicts returns: result_other holds the objects of the
\* input list, the aggregated records are new dicts
SharedWithAggregate(rs) ==
    {i \in 1..Len(rs) : rs[i].METRIC_NAME \notin {"data_exists", "table_exists"}}

\* load_to_database of an executor with a result table: the rows are the
\* elements of a copy of the aggregated list, so setting INSERT_TIMESTAMP on a
\* row sets it on the dict object; `results` holds the rows, queryLog the
\* statements sent when a database accessor is configured
LoadToDatabase ==
    /\ pc = "records"
    /\ IF Len(result_dicts) = 0
       THEN /\ pc' = "loaded"
            /\ UNCHANGED <<results, result_dicts, queryLog>>
       ELSE LET now == "2026-11-05 10:00:00+00:00"
                results_with_it ==
                    [i \in 1..Len(_aggregate_result_dicts(result_dicts)) |->
                        SetItem(_aggregate_result_dicts(result_dicts)[i], "INSERT_TIMESTAMP", now)]
            IN /\ results' = results_with_it
               /\ result_dicts' =
                     [i \in 1..Len(result_dicts) |->
                         IF i \in SharedWithAggregate(result_dicts)
                         THEN SetItem(result_dicts[i], "INSERT_TIMESTAMP", now)
                         ELSE result_dicts[i]]
               /\ IF config.database_accessor = ""
                  THEN pc' = "loaded" /\ UNCHANGED queryLog
                  ELSE \E outcome \in {"", "Could not create or replace table",
                                        "Could not insert rows into table"} :
                          LET create == [kind |-> "create", table |-> "result_table", check |-> 0,
                                         answer |-> [error |-> IF outcome = "Could not create or replace table" THEN outcome ELSE "",
                                                     rows |-> <<>>]]
                              insert == [kind |-> "insert", table |-> "result_table", check |-> 0,
                                         answer |-> [error |-> outcome,
                                                     rows |-> <<>>]]
                          IN /\ queryLog' = IF create.answer.error # ""
                                            THEN Append(queryLog, create)
                                            ELSE Append(Append(queryLog, create), insert)
                             /\ pc' = IF outcome = "" THEN "loaded" ELSE "raised"
    /\ UNCHANGED <<config, checks, idx, check_failed, cache>>

NextAggregate == AggregateResultDicts \/ AggregateChecksMsgs \/ LoadToDatabase

SpecAggregate == InitAggregate /\ [][NextAggregate]_vars

\* the positions of the list whose element satisfies the test
Positions(list, Test(_)) == {i \in 1..Len(list) : Test(list[i])}

\* the sorted, duplicate-free, ", "-joined list of the identifiers SHOP001, SHOP002
JoinedIdentifiers(ids) ==
    CASE ids = {"SHOP001"} -> "SHOP001"
      [] ids = {"SHOP002"} -> "SHOP002"
      [] ids = {"SHOP001", "SHOP002"} -> "SHOP001, SHOP002"

Orders(values) ==
    {o \in [1..Cardinality(values) -> values] : \A v \in values : \E i \in DOMAIN o : o[i] = v}

\* C15: _aggregate_checks_msgs replaces the messages that start with "No data"
\* and share the text before their first colon by one message "<prefix>: <identifiers>"
\* that lists each distinct identifier of the group (the stripped text behind the
\* first colon) once; the messages that do not start with "No data" are returned
\* as often as they came, unchanged and in their order.
C15_AggregateChecksMsgs ==
    pc = "messages_aggregated" =>
        LET Other(msg) == msg[1] # "No data"
            Grouped(msg) == msg[1] = "No data" /\ Colons(msg) # {}
            first(msg) == CHOOSE c \in Colons(msg) : \A d \in Colons(msg) : c <= d
            Prefix(msg) == SubSeq(msg, 1, first(msg) - 1)
            Identifier(msg) == strip(SubSeq(msg, first(msg) + 1, Len(msg)))
            in == failed_checks_msgs(checks)
            out == results
        IN /\ SelectSeq(out, Other) = SelectSeq(in, Other)
           /\ \A i \in Positions(in, Grouped) :
                 LET ids == {Identifier(in[j]) : j \in {j \in Positions(in, Grouped) :
                                                            Prefix(in[j]) = Prefix(in[i])}}
                     rows == {k \in Positions(out, Grouped) : Prefix(out[k]) = Prefix(in[i])}
                 IN /\ Cardinality(rows) = 1
                    /\ \A k \in rows :
                          \E o \in Orders(ids) : out[k] = Prefix(in[i]) \o <<":", " ">> \o join(o)
           /\ \A k \in Positions(out, Grouped) :
                 \E i \in Positions(in, Grouped) : Prefix(in[i]) = Prefix(out[k])

\* three checks: SHOP002 twice and SHOP001 miss the data of orders; one message for the three
C15_Witness ==
    /\ pc = "messages_aggregated" /\ Len(checks) = 3
    /\ checks[1].message = <<"No data", " in orders on 2023-01-01 for", ":", " ", "SHOP002">>
    /\ checks[2].message = <<"No data", " in orders on 2023-01-01 for", ":", " ", "SHOP001">>
    /\ checks[3].message = <<"No data", " in orders on 2023-01-01 for", ":", " ", "SHOP002", " ">>
    /\ results = << <<"No data", " in orders on 2023-01-01 for", ":", " ", "SHOP001", ", ", "SHOP002">> >>

----------------------------------------------------------------------------
(* The layering of defaults (models.py, Config.propagate_defaults_to_checks) *)

\* the parameter keys of the raw configuration and the value each layer gives them
ParameterKeys == {"lower_threshold", "upper_threshold"}
Layer(value) == UNION {[keys -> {value}] : keys \in SUBSET ParameterKeys}
GlobalDefaults == Layer(Float(0))
DefaultArgs == Layer(Float(1))
RawChecks == Layer(Float(2))

\* the raw configuration: global_defaults and one or two bundles of checks
RawBundles == [default_args : DefaultArgs, checks : SeqsUpTo(RawChecks, MaxChecks)]
RawConfigs == [global_defaults : GlobalDefaults, check_bundles : SeqsUpTo(RawBundles, 2)]

\* Merge in which the earlier mapping wins
MergeKeepFirst(a, b) == [k \in DOMAIN a \cup DOMAIN b |-> IF k \in DOMAIN a THEN a[k] ELSE b[k]]

\* {**a, **b}
Merge(a, b) == [k \in DOMAIN a \cup DOMAIN b |-> IF k \in DOMAIN b THEN b[k] ELSE a[k]]

\* Config.propagate_defaults_to_checks: the check_bundles of the returned data
propagate_defaults_to_checks(data) ==
    [b \in 1..Len(data.check_bundles) |->
        LET bundle == data.check_bundles[b]
            merged_checks == [c \in 1..Len(bundle.checks) |->
                                 Merge(Merge(data.global_defaults, bundle.default_args),
                                       bundle.checks[c])]
        IN [bundle EXCEPT !.checks = merged_checks]]

\* the raw configuration handed to the validator
InitDefaults ==
    /\ config \in RawConfigs
    /\ checks = <<>>
    /\ pc = "raw"
    /\ idx = 1
    /\ results = <<>>
    /\ result_dicts = <<>>
    /\ check_failed = FALSE
    /\ cache = EmptyDict
    /\ queryLog = <<>>

\* the validator runs; `results` holds the check_bundles of the returned data
PropagateDefaults ==
    /\ pc = "raw"
    /\ results' = propagate_defaults_to_checks(config)
    /\ pc' = "propagated"
    /\ UNCHANGED <<config, checks, idx, result_dicts, check_failed, cache, queryLog>>

NextDefaults == PropagateDefaults

SpecDefaults == InitDefaults /\ [][NextDefaults]_vars

\* C17: the resolved value of a parameter key of a check is the check's own value
\* if the check sets the key, otherwise the default of its bundle if the bundle
\* sets it, otherwise the global default; a key set in no layer is not added;
\* the resolved check depends on nothing but its own three layers, so resolving
\* one check does not change another one.
C17_DefaultLayering ==
    pc = "propagated" =>
        /\ Len(results) = Len(config.check_bundles)
        /\ \A b \in 1..Len(results) :
              LET raw == config.check_bundles[b]
                  global == config.global_defaults
              IN /\ Len(results[b].checks) = Len(raw.checks)
                 /\ results[b].default_args = raw.default_args
                 /\ \A c \in 1..Len(raw.checks) :
                       LET own == raw.checks[c]
                           resolved == results[b].checks[c]
                       IN /\ DOMAIN resolved =
                                DOMAIN own \cup DOMAIN raw.default_args \cup DOMAIN global
                          /\ \A key \in DOMAIN resolved :
                                resolved[key] =
                                    IF key \in DOMAIN own THEN own[key]
                                    ELSE IF key \in DOMAIN raw.default_args
                                    THEN raw.default_args[key]
                                    ELSE global[key]

\* a check that sets lower_threshold in a bundle that sets both keys under global
\* defaults that set both, next to a check in a second bundle without defaults
C17_Witness ==
    /\ pc = "propagated" /\ Len(results) = 2
    /\ DOMAIN config.global_defaults = {"lower_threshold"}
    /\ DOMAIN config.check_bundles[1].default_args = ParameterKeys
    /\ DOMAIN config.check_bundles[2].default_args = {}
    /\ Len(results[1].checks) = 2 /\ Len(results[2].checks) = 1
    /\ DOMAIN config.check_bundles[1].checks[1] = {"lower_threshold"}
    /\ DOMAIN config.check_bundles[2].checks[1] = {}
    /\ results[1].checks[1] = [lower_threshold |-> Float(2), upper_threshold |-> Float(1)]
    /\ results[2].checks[1] = [lower_threshold |-> Float(0)]

----------------------------------------------------------------------------
(* Relative dates (utils.py, parse_date).  A date text is a sequence of    *)
(* tokens: a keyword, a sign, a number, an ISO date or other text.         *)

\* today is 2023-01-15
Today == 15

Keywords == {"today", "yesterday", "tomorrow"}
Signs == {"+", "-"}
InlineSuffixes == {<<>>} \cup {<<sign, n>> : sign \in Signs, n \in 1..MaxOffset}

DateTexts ==
    {<<keyword>> \o suffix : keyword \in Keywords, suffix \in InlineSuffixes}
    \cup {<<"2023-01-15">>, <<"2023-01-10">>, <<"next week">>}
    \cup {<<"x", "today", sign, n, "y">> : sign \in Signs, n \in 1..MaxOffset}

\* int(regex_match[1]) of a sign and its digits
int(sign, n) == IF sign = "-" THEN 0 - n ELSE n

\* re.search(r"today([+-][0-9]+)", date): the positions of the text where it matches
today_matches(date) ==
    {i \in 1..(Len(date) - 2) :
        date[i] = "today" /\ date[i + 1] \in Signs /\ date[i + 2] \in Nat}

\* utils.parse_date: the returned ISO date, or the exception raised
parse_date(date, offset_days) ==
    IF date = <<"today">>
    THEN [raised |-> "", value |-> IsoDate(Today + offset_days)]
    ELSE IF date = <<"yesterday">>
    THEN [raised |-> "", value |-> IsoDate(Today + (offset_days - 1))]
    ELSE IF date = <<"tomorrow">>
    THEN [raised |-> "", value |-> IsoDate(Today + (offset_days + 1))]
    ELSE IF today_matches(date) # {}
    THEN LET i == CHOOSE m \in today_matches(date) : \A n \in today_matches(date) : m <= n
         IN [raised |-> "", value |-> IsoDate(Today + (offset_days + int(date[i + 1], date[i + 2])))]
    ELSE IF Len(date) = 1 /\ \E d \in Days : IsoDate(d) = date[1]
    THEN [raised |-> "", value |-> IsoDate(fromisoformat(date[1]) + offset_days)]
    ELSE [raised |-> "ValueError", value |-> ""]

\* a date text and an offset
InitDate ==
    /\ config \in [date : DateTexts, offset_days : (0 - MaxOffset)..MaxOffset]
    /\ checks = <<>>
    /\ pc = "date"
    /\ idx = 1
    /\ results = <<>>
    /\ result_dicts = <<>>
    /\ check_failed = FALSE
    /\ cache = EmptyDict
    /\ queryLog = <<>>

\* parse_date(date, offset_days); `results` holds what the call returned or raised
ParseDate ==
    /\ pc = "date"
    /\ results' = <<parse_date(config.date, config.offset_days)>>
    /\ pc' = "parsed"
    /\ UNCHANGED <<config, checks, idx, result_dicts, check_failed, cache, queryLog>>

NextDate == ParseDate

SpecDate == InitDate /\ [][NextDate]_vars

\* C18: for each keyword today, yesterday, tomorrow with base 0, -1, +1, each
\* optional inline suffix +n or -n and each offset_days k, parse_date returns the
\* ISO date of today + base + n + k days (n = 0 without suffix).
C18_RelativeDatesAdditive ==
    (pc = "parsed" /\ config.date[1] \in Keywords) =>
        LET base == CASE config.date[1] = "today" -> 0
                      [] config.date[1] = "yesterday" -> -1
                      [] config.date[1] = "tomorrow" -> 1
            n == IF Len(config.date) = 1 THEN 0 ELSE int(config.date[2], config.date[3])
        IN results[1] = [raised |-> "", value |-> IsoDate(Today + base + n + config.offset_days)]

----------------------------------------------------------------------------
(* IqrOutlierCheck (checks.py) in a run of the executor *)

\* the parameters of a declared IqrOutlierCheck: the three valid settings of how,
\* and one setting for each parameter the constructor rejects
IqrParameters ==
    {[interval_days |-> 1, how |-> h, iqr_factor |-> Float(2)] : h \in {"both", "upper", "lower"}}
    \cup {[interval_days |-> 0, how |-> "both", iqr_factor |-> Float(2)],
          [interval_days |-> 1, how |-> "foo", iqr_factor |-> Float(2)],
          [interval_days |-> 1, how |-> "both", iqr_factor |-> Float(1)]}

\* the thresholds the configuration gives for the check: none, or a pair
ConfiguredThresholds ==
    {[k \in {} |-> None], [lower_threshold |-> Float(1), upper_threshold |-> Float(1)]}

\* the declared IqrOutlierChecks (model_dump of the check configuration)
IqrConfigs ==
    {Merge([table |-> "orders", check_column |-> "VALUE",
            shop_id |-> PyStr("SHOP001"), date |-> "2023-01-01", monitor_only |-> FALSE,
            interval_days |-> p.interval_days, how |-> p.how, iqr_factor |-> p.iqr_factor], t) :
        p \in IqrParameters, t \in ConfiguredThresholds}

\* check_kwargs.pop(key, None) for each of the keys
pop(check_kwargs, keys) == [k \in DOMAIN check_kwargs \ keys |-> check_kwargs[k]]

\* IqrValueError without the test of iqr_factor
IqrValueErrorNoFactor(kwargs) ==
    IF kwargs.interval_days < 1 THEN "interval_days must be at least 1"
    ELSE IF kwargs.how \notin {"both", "upper", "lower"}
    THEN "how must be one of 'both', 'upper', 'lower'"
    ELSE ""

\* the exception IqrOutlierCheck.__init__ raises for the parameters, "" for none
IqrValueError(kwargs) ==
    IF kwargs.interval_days < 1 THEN "interval_days must be at least 1"
    ELSE IF kwargs.how \notin {"both", "upper", "lower"}
    THEN "how must be one of 'both', 'upper', 'lower'"
    ELSE IF 2 * kwargs.iqr_factor.n < 3 THEN "iqr_factor must be at least 1.5"
    ELSE ""

\* IqrOutlierCheck.__init__ on valid parameters: the check object.  Thresholds
\* are not among its parameters: they start as -inf and +inf; the date filter is
\* taken out of the filters.
IqrOutlierCheck(kwargs, database_accessor) ==
    [database_accessor |-> database_accessor,
     table |-> kwargs.table,
     lower_threshold |-> NegInf,
     upper_threshold |-> PosInf,
     monitor_only |-> kwargs.monitor_only,
     status |-> "NOT_EXECUTED",
     message |-> NoMessage,
     filters |-> [name \in {"shop_id"} |-> [column |-> "shop_code", value |-> kwargs.shop_id]],
     shop_id |-> kwargs.shop_id,
     date_filter_value |-> kwargs.date,
     check_column |-> kwargs.check_column,
     name |-> kwargs.check_column \o "_outlier_iqr_" \o kwargs.how \o "_"
                  \o IntToStr(kwargs.iqr_factor.n) \o "_0",
     result |-> None,
     interval_days |-> kwargs.interval_days,
     how |-> kwargs.how,
     iqr_factor |-> kwargs.iqr_factor]

\* the quartiles of the history of the check: none without history
Histories == {None, [q25 |-> 1, q75 |-> 1], [q25 |-> 0, q75 |-> 1]}

\* the row of the metric query (SELECT * FROM stats): the value of the check
\* date, the quartiles of the history and the thresholds the query derives
stats(self, value, history) ==
    IF history = None
    THEN [value |-> value, q25 |-> None, q75 |-> None,
          lower_threshold |-> None, upper_threshold |-> None]
    ELSE [value |-> value, q25 |-> Float(history.q25), q75 |-> Float(history.q75),
          lower_threshold |->
              Float(history.q25 - self.iqr_factor.n * (history.q75 - history.q25)),
          upper_threshold |->
              Float(history.q75 + self.iqr_factor.n * (history.q75 - history.q25))]

\* what the engine can answer to the metric query of an IqrOutlierCheck
IqrMetricOutcomes(self) ==
    {[error |-> e, rows |-> <<>>] : e \in ErrorTexts}
    \cup {[error |-> "", rows |-> <<>>]}
    \cup {[error |-> "", rows |-> <<stats(self, v, h)>>] : v \in RunValues, h \in Histories}

\* IqrOutlierCheck._check without the overwrite of the thresholds
IqrOutlierCheck_check_keep(self, metric) == self

\* IqrOutlierCheck._check: the thresholds of the check after the metric query
IqrOutlierCheck_check(self, metric) ==
    IF metric.rows = <<>> THEN self
    ELSE [self EXCEPT
            !.lower_threshold = IF self.how \in {"both", "lower"}
                                THEN metric.rows[1].lower_threshold ELSE @,
            !.upper_threshold = IF self.how \in {"both", "upper"}
                                THEN metric.rows[1].upper_threshold ELSE @]

\* the answer as DataQualityCheck.check reads it: the column of the metric
MetricColumn(metric) ==
    [error |-> metric.error,
     rows |-> IF metric.rows = <<>> THEN <<>> ELSE <<metric.rows[1].value>>]

\* the comparison lower <= value <= upper of check() raises TypeError: it is
\* reached and meets a threshold that is None
ComparisonRaises(self, metric) ==
    /\ metric.error = "" /\ ~self.monitor_only
    /\ metric.rows # <<>> /\ metric.rows[1].value # None
    /\ \/ self.lower_threshold = None
       \/ /\ FloatLeq(self.lower_threshold, float(metric.rows[1].value))
          /\ self.upper_threshold = None

\* a run of the executor over declared IqrOutlierChecks
InitIqr ==
    /\ config \in [database_accessor : {"bq"}, checks : SeqsUpTo(IqrConfigs, MaxChecks)]
    /\ checks = <<>>
    /\ pc = "start"
    /\ idx = 1
    /\ results = <<>>
    /\ result_dicts = <<>>
    /\ check_failed = FALSE
    /\ cache = EmptyDict
    /\ queryLog = <<>>

\* the positions of the declared checks whose constructor raises
Rejected == {i \in 1..Len(config.checks) :
                IqrValueError(pop(config.checks[i], {"lower_threshold", "upper_threshold"})) # ""}

\* execute_checks, first loop: every declared check is constructed
InstantiateIqrChecks ==
    /\ pc = "start"
    /\ Rejected = {}
    /\ checks' = [i \in 1..Len(config.checks) |->
                      IqrOutlierCheck(pop(config.checks[i], {"lower_threshold", "upper_threshold"}),
                                      config.database_accessor)]
    /\ pc' = IF config.database_accessor # "" /\ config.checks # <<>> THEN "fetch" ELSE "exec"
    /\ UNCHANGED <<config, idx, results, result_dicts, check_failed, cache, queryLog>>

\* execute_checks, first loop: a constructor raises ValueError; the checks declared
\* before it are constructed, the run is over
InstantiationRaises ==
    /\ pc = "start"
    /\ Rejected # {}
    /\ LET first == CHOOSE i \in Rejected : \A j \in Rejected : i <= j
       IN checks' = [i \in 1..(first - 1) |->
                         IqrOutlierCheck(pop(config.checks[i], {"lower_threshold", "upper_threshold"}),
                                         config.database_accessor)]
    /\ pc' = "raised"
    /\ UNCHANGED <<config, idx, results, result_dicts, check_failed, cache, queryLog>>

\* execute_checks, one iteration of the evaluation loop on an IqrOutlierCheck
ExecuteIqrCheck ==
    /\ pc = "exec"
    /\ idx <= Len(checks)
    /\ LET check_instance == checks[idx]
           cache_key == _get_dataset_cache_key(check_instance)
           hit == CacheHit(cache, cache_key)
       IN \E probe \in IF hit THEN {Loaded} ELSE ProbeOutcomes(check_instance) :
          LET dc == IF hit THEN [self |-> check_instance, ret |-> cache[cache_key]]
                    ELSE data_check(check_instance, probe)
              data_check_result == dc.ret
              log1 == IF hit THEN queryLog
                      ELSE Append(queryLog, Query("probe", check_instance.table, idx, probe))
          IN /\ cache' = IF hit THEN cache ELSE CachePut(cache, cache_key, data_check_result)
             /\ IF data_check_result # EmptyDict
                THEN /\ results' = AppendResult(results, data_check_result)
                     /\ checks' = [checks EXCEPT ![idx] = dc.self]
                     /\ queryLog' = log1
                     /\ idx' = idx + 1 /\ pc' = pc
                ELSE \E metric \in IqrMetricOutcomes(check_instance) :
                        LET queried == IqrOutlierCheck_check(dc.self, metric)
                            c == check(queried, MetricColumn(metric))
                        IN /\ queryLog' = Append(log1, Query("metric", check_instance.table,
                                                             idx, metric))
                           /\ IF ComparisonRaises(queried, metric)
                              THEN /\ checks' = [checks EXCEPT ![idx] = queried]
                                   /\ results' = results
                                   /\ idx' = idx /\ pc' = "raised"
                              ELSE /\ checks' = [checks EXCEPT ![idx] = c.self]
                                   /\ results' = AppendResult(results, c.ret)
                                   /\ idx' = idx + 1 /\ pc' = pc
    /\ UNCHANGED <<config, result_dicts, check_failed>>

NextIqr ==
    InstantiateIqrChecks \/ InstantiationRaises \/ FetchTable \/ FetchFails
    \/ ExecuteIqrCheck \/ Finish

SpecIqr == InitIqr /\ [][NextIqr]_vars

\* the declared parameters are outside what the constructor accepts
InvalidIqrParameters(cfg) ==
    \/ cfg.interval_days < 1
    \/ cfg.iqr_factor.n <= 1
    \/ ~(cfg.how = "both" \/ cfg.how = "upper" \/ cfg.how = "lower")

ReturnedRow(i) == queryLog[CHOOSE p \in Entries("metric", i) : TRUE].answer.rows

\* C20: an IqrOutlierCheck is classified against the bounds derived from its
\* history: with how = both the thresholds used and reported are Q25 - k*IQR and
\* Q75 + k*IQR, with how = upper the lower threshold is -inf, with how = lower
\* the upper threshold is +inf; RESULT is SUCCESS if and only if the value lies
\* between them; the thresholds the configuration gives for the check do not
\* enter.  Without a row the thresholds are -inf and +inf and the null value fails;
\* a row without quartiles (no history) yields no record.
C20_IqrDerivedThresholds ==
    \A i \in Evaluated : MetricSucceeded(i) =>
        LET how == config.checks[i].how
            k == config.checks[i].iqr_factor.n
            rows == ReturnedRow(i)
            q25 == rows[1].q25.n
            q75 == rows[1].q75.n
            lower == IF rows # <<>> /\ how \in {"both", "lower"}
                     THEN Float(q25 - k * (q75 - q25)) ELSE NegInf
            upper == IF rows # <<>> /\ how \in {"both", "upper"}
                     THEN Float(q75 + k * (q75 - q25)) ELSE PosInf
            value == IF rows = <<>> THEN None ELSE Float(rows[1].value.n)
        IN IF rows # <<>> /\ rows[1].q25 = None
           THEN FALSE
           ELSE /\ results[i].LOWER_THRESHOLD = lower
                /\ results[i].UPPER_THRESHOLD = upper
                /\ results[i].VALUE = value
                /\ results[i].RESULT \in {"SUCCESS", "FAIL"}
                /\ (results[i].RESULT = "SUCCESS") <=>
                       (value # None /\ Within(lower, value, upper))
                /\ checks[i].status = results[i].RESULT

\* the configuration gives the thresholds 1 and 1; with how = upper and the
\* quartiles 0 and 1 the value 0 is classified against -inf and 3 and passes
C20_Witness ==
    /\ pc = "done" /\ Len(checks) = 1
    /\ "lower_threshold" \in DOMAIN config.checks[1]
    /\ config.checks[1].lower_threshold = Float(1) /\ config.checks[1].upper_threshold = Float(1)
    /\ config.checks[1].how = "upper"
    /\ MetricSucceeded(1) /\ ReturnedRow(1) # <<>>
    /\ ReturnedRow(1)[1].q25 = Float(0) /\ ReturnedRow(1)[1].q75 = Float(1)
    /\ result_dicts[1].VALUE = Float(0)
    /\ result_dicts[1].LOWER_THRESHOLD = NegInf /\ result_dicts[1].UPPER_THRESHOLD = Float(3)
    /\ result_dicts[1].RESULT = "SUCCESS"

----------------------------------------------------------------------------
(* The error of the metric query and monitor_only *)

\* C29: the error of the metric query takes precedence over monitor_only: the
\* record of a monitor_only check whose metric query raised has RESULT ERROR, a
\* null VALUE and the check has a message, and when the run returns check_failed
\* is true.
C29_ErrorBeatsMonitorOnly ==
    \A i \in 1..Len(checks) : (MetricRaised(i) /\ checks[i].monitor_only) =>
        /\ results[i].RESULT = "ERROR"
        /\ results[i].VALUE = None
        /\ checks[i].message # NoMessage
        /\ pc = "done" => check_failed

\* a run of monitor_only checks only, one of which errors: check_failed is true
C29_Witness ==
    /\ pc = "done"
    /\ \A i \in 1..Len(checks) : checks[i].monitor_only
    /\ \E i \in 1..Len(checks) : MetricRaised(i) /\ result_dicts[i].RESULT = "ERROR"
    /\ check_failed

----------------------------------------------------------------------------
(* No failure message is lost by the aggregation *)

\* the part is a run of consecutive pieces of the text
Contains(text, part) ==
    \E k \in 1..(Len(text) - Len(part) + 1) : SubSeq(text, k, k + Len(part) - 1) = part

\* C30: _aggregate_checks_msgs loses no failure: each input message is returned
\* unchanged, or it is a "No data" message whose identifier is listed in exactly
\* one output message with the prefix of the input message; no input message,
\* a "No data" message without a colon included, is dropped, and each output
\* message has an input message it comes from.
C30_NoMessageLost ==
    pc = "messages_aggregated" =>
        LET first(msg) == CHOOSE c \in Colons(msg) : \A d \in Colons(msg) : c <= d
            Prefix(msg) == SubSeq(msg, 1, first(msg) - 1)
            Behind(msg) == SubSeq(msg, first(msg) + 1, Len(msg))
            Grouped(msg) == msg[1] = "No data" /\ Colons(msg) # {}
            in == failed_checks_msgs(checks)
            out == results
            Merged(i) == {k \in Positions(out, Grouped) :
                            /\ Prefix(out[k]) = Prefix(in[i])
                            /\ Contains(Behind(out[k]), strip(Behind(in[i])))}
        IN /\ \A i \in 1..Len(in) :
                 \/ in[i] \in Range(out)
                 \/ Grouped(in[i]) /\ Cardinality(Merged(i)) = 1
           /\ \A k \in 1..Len(out) :
                 \/ out[k] \in Range(in)
                 \/ /\ Grouped(out[k])
                    /\ \E i \in Positions(in, Grouped) : Prefix(in[i]) = Prefix(out[k])

----------------------------------------------------------------------------
(* The date texts parse_date refuses *)

\* C26: parse_date raises ValueError for every text that is neither a keyword
\* (today, yesterday, tomorrow), optionally followed by +n or -n, nor a valid
\* ISO date; a text that merely holds a keyword with a suffix inside other
\* characters ('xtoday-2y') is refused as well.
C26_ParseDateRefuses ==
    pc = "parsed" =>
        LET date == config.date
            keyword == /\ Len(date) \in {1, 3}
                       /\ date[1] \in Keywords
                       /\ Len(date) = 3 => (date[2] \in Signs /\ date[3] \in Nat)
            iso == Len(date) = 1 /\ \E d \in Days : IsoDate(d) = date[1]
        IN ~(keyword \/ iso) => results[1].raised = "ValueError"

----------------------------------------------------------------------------
(* The record of missing data *)

\* C23: when the existence probe of a check finds no rows, the record the call
\* returns has METRIC_NAME data_exists, DATE equal to the value of the date
\* filter of the check, TABLE equal to the name of the empty table the probe
\* reported, and the identifier of the check.
C23_MissingDataRecord ==
    (pc = "called" /\ ReportsMissing(queryLog[1].answer)) =>
        /\ results[1].METRIC_NAME = "data_exists"
        /\ results[1].DATE = config.checks[1].date
        /\ results[1].TABLE = queryLog[1].answer.rows[1].s
        /\ results[1].SHOP_ID = config.checks[1].shop_id

----------------------------------------------------------------------------
(* MatchRateCheck (checks.py) on the rows of its two tables *)

\* the rows the engine can hold: purchase_order (left) has at most one row per
\* day and shop, skufeed (right) holds the products of SHOP001
MatchTables ==
    [purchase_order : SUBSET [DATE : {"2023-01-01", "2023-01-02"}, shop_code : {"SHOP001", "SHOP002"},
                              product_number : {"P1"}],
     skufeed : SUBSET [DATE : {"2023-01-01", "2023-01-02"}, shop_code : {"SHOP001"},
                       product_number : {"P1", "P2"}]]

\* the declared parameters of the MatchRateCheck
MatchRateConfigs ==
    [left_table : {"purchase_order"}, right_table : {"skufeed"},
     shop_id : {PyStr("SHOP001"), PyStr("SHOP002")}, date : {"2023-01-01", "2023-01-02"},
     monitor_only : {FALSE},
     lower_threshold : {Float(1)}, upper_threshold : {Float(1)}]

\* MatchRateCheck.__init__
MatchRateCheck(cfg, database_accessor) ==
    LET base == NewCheck([table |-> cfg.left_table \o "_JOIN_" \o cfg.right_table,
                          shop_id |-> cfg.shop_id, date |-> cfg.date,
                          monitor_only |-> cfg.monitor_only,
                          lower_threshold |-> cfg.lower_threshold,
                          upper_threshold |-> cfg.upper_threshold], database_accessor)
    IN [f \in DOMAIN base \cup {"left_table", "right_table", "filters_left", "filters_right"} |->
          CASE f = "left_table" -> cfg.left_table
            [] f = "right_table" -> cfg.right_table
            [] f \in {"filters_left", "filters_right"} -> base.filters
            [] f = "check_column" -> "product_number"
            [] f = "name" -> "product_number_matchrate"
            [] OTHER -> base[f]]

\* the rows of a table the WHERE statement of the filters selects
Filtered(rows, filters) ==
    {row \in rows : Holds([and |-> assemble_where_statement(filters)], row)}

\* the engine answering MatchRateCheck.assemble_data_exists_query: the marker is
\* the left table if it has no row for the filters, else the right table if that
\* one has none, else the empty string
MatchRateCheck_assemble_data_exists_query(self, tables) ==
    LET left_counter == Cardinality(Filtered(tables[self.left_table], self.filters_left))
        right_counter == Cardinality(Filtered(tables[self.right_table], self.filters_right))
        empty_table == IF left_counter > 0
                       THEN (IF right_counter > 0 THEN "" ELSE self.right_table)
                       ELSE self.left_table
    IN [error |-> "", rows |-> <<PyStr(empty_table)>>]

\* the engine answering MatchRateCheck.assemble_query: the share of the left rows
\* whose product is among the right rows, NULL without left rows
MatchRateCheck_assemble_query(self, tables) ==
    LET lefty == Filtered(tables[self.left_table], self.filters_left)
        righty == {row.product_number :
                      row \in Filtered(tables[self.right_table], self.filters_right)}
        matched == {row \in lefty : row.product_number \in righty}
    IN [error |-> "",
        rows |-> IF lefty = {} THEN <<None>>
                 ELSE <<Float(Cardinality(matched) \div Cardinality(lefty))>>]

\* a MatchRateCheck and the rows of its two tables
InitMatch ==
    /\ config \in [database_accessor : {""}, checks : {<<c>> : c \in MatchRateConfigs},
                   tables : MatchTables]
    /\ checks = <<MatchRateCheck(config.checks[1], config.database_accessor)>>
    /\ pc = "call"
    /\ idx = 1
    /\ results = <<>>
    /\ result_dicts = <<>>
    /\ check_failed = FALSE
    /\ cache = EmptyDict
    /\ queryLog = <<>>

\* DataQualityCheck.__call__ on the MatchRateCheck: the probe, then the metric
CallMatchRateCheck ==
    /\ pc = "call"
    /\ LET probe == MatchRateCheck_assemble_data_exists_query(checks[1], config.tables)
           dc == data_check(checks[1], probe)
           log1 == Append(queryLog, Query("probe", checks[1].table, 1, probe))
       IN IF dc.ret # EmptyDict
          THEN /\ results' = <<dc.ret>>
               /\ checks' = <<dc.self>>
               /\ queryLog' = log1
          ELSE LET metric == MatchRateCheck_assemble_query(dc.self, config.tables)
                   c == check(dc.self, metric)
               IN /\ results' = <<c.ret>>
                  /\ checks' = <<c.self>>
                  /\ queryLog' = Append(log1, Query("metric", checks[1].table, 1, metric))
    /\ pc' = "called"
    /\ UNCHANGED <<config, idx, result_dicts, check_failed, cache>>

NextMatch == CallMatchRateCheck

SpecMatch == InitMatch /\ [][NextMatch]_vars

\* the rows of the left and of the right table the filters of the check select
LeftRows == Filtered(config.tables[checks[1].left_table], checks[1].filters_left)
RightRows == Filtered(config.tables[checks[1].right_table], checks[1].filters_right)

\* C22: the missing-data outcome of a MatchRateCheck names the empty side: the
\* left table when the left table has no rows (also when the right table has
\* none either), the right table when the left table has rows and the right
\* table has none; when both have rows there is no missing-data record and the
\* metric query runs.
C22_MatchRateNamesEmptySide ==
    pc = "called" =>
        /\ LeftRows = {} =>
              (IsMissingDataRecord(results[1]) /\ results[1].TABLE = checks[1].left_table)
        /\ (LeftRows # {} /\ RightRows = {}) =>
              (IsMissingDataRecord(results[1]) /\ results[1].TABLE = checks[1].right_table)
        /\ (LeftRows # {} /\ RightRows # {}) =>
              (~IsMissingDataRecord(results[1]) /\ MetricRan(1))

----------------------------------------------------------------------------
(* The windows of RelCountChangeCheck and IqrOutlierCheck (checks.py) *)

WindowDays == 13..17

\* the rows the table can hold: a day, a shop and the checked column
WindowRows ==
    [DATE : {IsoDate(d) : d \in WindowDays}, shop_code : {"SHOP001", "SHOP002"},
     product_number : {"P1"}]

\* the two window checks: their class, their date, their window and, after
\* __init__ took the date filter out of self.filters, their identifier filter
WindowChecks ==
    {[kind |-> k, table |-> "orders", check_column |-> "product_number",
      date_filter_column |-> "DATE", date_filter_value |-> IsoDate(d),
      rolling_days |-> IF k = "RelCountChangeCheck" THEN n ELSE 0,
      interval_days |-> IF k = "IqrOutlierCheck" THEN n ELSE 0,
      filters |-> [name \in {"shop_id"} |-> [column |-> "shop_code", value |-> PyStr("SHOP001")]]] :
        k \in {"RelCountChangeCheck", "IqrOutlierCheck"}, d \in {15, 16}, n \in 1..MaxOffset}

\* column BETWEEN lower AND upper on days
BETWEEN(day, lower, upper) == lower <= day /\ day <= upper

\* the CTE base of RelCountChangeCheck.assemble_query, before GROUP BY
base(self, rows) ==
    LET D == fromisoformat(self.date_filter_value)
    IN {row \in Filtered(rows, self.filters) :
           BETWEEN(fromisoformat(row[self.date_filter_column]), D - self.rolling_days, D)}

\* COUNT(DISTINCT check_column) ... GROUP BY date: the count of each day of the rows
dist_cnt(self, rows) ==
    [day \in {fromisoformat(row[self.date_filter_column]) : row \in rows} |->
        Cardinality({row[self.check_column] :
                        row \in {r \in rows : fromisoformat(r[self.date_filter_column]) = day}})]

RECURSIVE SumOver(_, _)
SumOver(f, keys) ==
    IF keys = {} THEN 0
    ELSE LET k == CHOOSE x \in keys : TRUE IN f[k] + SumOver(f, keys \ {k})

\* the rows under the CTE rolling_avgs of RelCountChangeCheck.assemble_query
rolling_avgs_rows(self, rows) ==
    LET D == fromisoformat(self.date_filter_value)
    IN {row \in base(self, rows) :
           BETWEEN(fromisoformat(row[self.date_filter_column]), D - self.rolling_days, D - 1)}

\* the rows under the CTE dist_cnt_helper of RelCountChangeCheck.assemble_query
dist_cnt_helper_rows(self, rows) ==
    {row \in base(self, rows) : row[self.date_filter_column] = self.date_filter_value}

\* RelCountChangeCheck.assemble_query on the rows of the table: the rows behind
\* the rolling average and behind the current count, AVG(dist_cnt) as the sum
\* and the number of the days it averages, and MAX(dist_cnt) with the helper row 0
RelCountChangeCheck_assemble_query(self, rows) ==
    LET history == rolling_avgs_rows(self, rows)
        current == dist_cnt_helper_rows(self, rows)
        counts == dist_cnt(self, history)
        today == dist_cnt(self, current)
    IN [history |-> history,
        current |-> current,
        rolling_avg |-> [sum |-> SumOver(counts, DOMAIN counts),
                         days |-> Cardinality(DOMAIN counts)],
        dist_cnt |-> SumOver(today, DOMAIN today)]

\* the CTE raw of IqrOutlierCheck.transformation_statement
raw(self, rows) ==
    LET D == fromisoformat(self.date_filter_value)
    IN {row \in Filtered(rows, self.filters) :
           BETWEEN(fromisoformat(row[self.date_filter_column]), D - self.interval_days, D)}

\* the CTE compare with the check date let in (date <= D)
compare_to_date(self, rows) ==
    {row \in raw(self, rows) :
        fromisoformat(row[self.date_filter_column]) <= fromisoformat(self.date_filter_value)}

\* the CTE compare of IqrOutlierCheck.transformation_statement
compare(self, rows) ==
    {row \in raw(self, rows) :
        fromisoformat(row[self.date_filter_column]) < fromisoformat(self.date_filter_value)}

\* the CTE slice of IqrOutlierCheck.transformation_statement
slice(self, rows) ==
    {row \in raw(self, rows) : row[self.date_filter_column] = self.date_filter_value}

\* IqrOutlierCheck.transformation_statement on the rows of the table: the rows
\* the percentiles are taken from and the rows of the check date
IqrOutlierCheck_transformation_statement(self, rows) ==
    [history |-> compare(self, rows), current |-> slice(self, rows)]

\* a window check and the rows of its table
InitWindow ==
    /\ config \in [database_accessor : {""}, checks : {<<>>}, tables : [orders : SUBSET WindowRows]]
    /\ checks \in {<<c>> : c \in WindowChecks}
    /\ pc = "query"
    /\ idx = 1
    /\ results = <<>>
    /\ result_dicts = <<>>
    /\ check_failed = FALSE
    /\ cache = EmptyDict
    /\ queryLog = <<>>

\* the engine evaluates the metric query of the RelCountChangeCheck
QueryRelCountChange ==
    /\ pc = "query"
    /\ checks[1].kind = "RelCountChangeCheck"
    /\ results' = <<RelCountChangeCheck_assemble_query(checks[1], config.tables[checks[1].table])>>
    /\ pc' = "queried"
    /\ UNCHANGED <<config, checks, idx, result_dicts, check_failed, cache, queryLog>>

\* the engine evaluates the metric query of the IqrOutlierCheck
QueryIqrOutlier ==
    /\ pc = "query"
    /\ checks[1].kind = "IqrOutlierCheck"
    /\ results' = <<IqrOutlierCheck_transformation_statement(checks[1], config.tables[checks[1].table])>>
    /\ pc' = "queried"
    /\ UNCHANGED <<config, checks, idx, result_dicts, check_failed, cache, queryLog>>

NextWindow == QueryRelCountChange \/ QueryIqrOutlier

SpecWindow == InitWindow /\ [][NextWindow]_vars

\* the rows of the table that pass the identifier filter of the check and are
\* dated from the day `from` to the day `to`
RowsDated(from, to) ==
    {row \in config.tables[checks[1].table] :
        /\ row.shop_code = "SHOP001"
        /\ \E d \in from..to : row.DATE = IsoDate(d)}

\* C21: for a RelCountChangeCheck (window rolling_days) and an IqrOutlierCheck
\* (window interval_days) with check date D and window N, the historic baseline
\* is computed from the rows dated in [D-N, D-1] and from no row dated D, and
\* the current value from the rows dated exactly D.
C21_WindowExcludesCheckDate ==
    pc = "queried" =>
        LET D == fromisoformat(checks[1].date_filter_value)
            N == checks[1].rolling_days + checks[1].interval_days
        IN /\ results[1].history = RowsDated(D - N, D - 1)
           /\ \A row \in results[1].history : row.DATE # IsoDate(D)
           /\ results[1].current = RowsDated(D, D)
           /\ checks[1].kind = "RelCountChangeCheck" =>
                 /\ results[1].rolling_avg.days =
                       Cardinality({row.DATE : row \in RowsDated(D - N, D - 1)})
                 /\ results[1].dist_cnt = IF RowsDated(D, D) = {} THEN 0 ELSE 1

\* the table holds rows of the check date, of the window, of the day before the
\* window and of the day after the check date; both classes
C21_Witness ==
    /\ pc = "queried" /\ checks[1].kind = "RelCountChangeCheck"
    /\ checks[1].date_filter_value = "2023-01-16" /\ checks[1].rolling_days = 2
    /\ \A d \in WindowDays : \E row \in config.tables.orders :
          row.DATE = IsoDate(d) /\ row.shop_code = "SHOP001"
    /\ results[1].rolling_avg = [sum |-> 2, days |-> 2]
    /\ results[1].dist_cnt = 1

C21_WitnessIqr ==
    /\ pc = "queried" /\ checks[1].kind = "IqrOutlierCheck"
    /\ checks[1].date_filter_value = "2023-01-16" /\ checks[1].interval_days = 2
    /\ \A d \in WindowDays : \E row \in config.tables.orders :
          row.DATE = IsoDate(d) /\ row.shop_code = "SHOP001"
    /\ Cardinality(results[1].history) = 2 /\ Cardinality(results[1].current) = 1

----------------------------------------------------------------------------
(* The text of the WHERE statement (checks.py, assemble_where_statement) *)

\* the items a filter map can hold, each under its own name: two filters with a
\* value, two with a null value, and a naming-only identifier filter, which has
\* no column
FilterItems ==
    {<<"shop_id", [column |-> "shop_code", value |-> PyStr("SHOP001"), operator |-> "="]>>,
     <<"date", [column |-> "DATE", value |-> PyStr("2023-01-01"), operator |-> "="]>>,
     <<"deleted", [column |-> "deleted_at", value |-> None, operator |-> "="]>>,
     <<"active", [column |-> "updated_at", value |-> None, operator |-> "!="] >>,
     <<"tenant", [type |-> "identifier", value |-> None]>>}

\* the filter maps, as the list of their items in iteration order
FilterMaps ==
    {m \in SeqsUpTo(FilterItems, MaxFilters) :
        \A i, j \in 1..Len(m) : i # j => m[i] # m[j]}

\* sep.join(texts) on lists of pieces
RECURSIVE join_with(_, _)
join_with(sep, texts) ==
    IF texts = <<>> THEN <<>>
    ELSE IF Len(texts) = 1 THEN texts[1]
    ELSE texts[1] \o <<sep>> \o join_with(sep, Tail(texts))

\* DataQualityCheck.assemble_where_statement: the returned text in pieces, or
\* the exception raised; filter_dict['column'] raises KeyError for a filter
\* without a column
assemble_where_statement_str(filters) ==
    IF Len(filters) = 0 THEN [raised |-> "", value |-> <<>>]
    ELSE IF \E i \in 1..Len(filters) : "column" \notin DOMAIN filters[i][2]
    THEN [raised |-> "KeyError", value |-> <<>>]
    ELSE LET filters_statements ==
                 [i \in 1..Len(filters) |->
                     <<"    ", filters[i][2].column, " = '", str(filters[i][2].value), "'">>]
         IN [raised |-> "", value |-> <<"WHERE\n">> \o join_with("\nAND\n", filters_statements)]

\* a filter map
InitWhere ==
    /\ config \in [database_accessor : {""}, checks : {<<>>}, filters : FilterMaps]
    /\ checks = <<>>
    /\ pc = "where"
    /\ idx = 1
    /\ results = <<>>
    /\ result_dicts = <<>>
    /\ check_failed = FALSE
    /\ cache = EmptyDict
    /\ queryLog = <<>>

\* assemble_where_statement(filters); `results` holds what the call returned or raised
AssembleWhere ==
    /\ pc = "where"
    /\ results' = <<assemble_where_statement_str(config.filters)>>
    /\ pc' = "assembled"
    /\ UNCHANGED <<config, checks, idx, result_dicts, check_failed, cache, queryLog>>

NextWhere == AssembleWhere

SpecWhere == InitWhere /\ [][NextWhere]_vars

\* the conditions of a WHERE text: the runs of pieces behind "WHERE\n", cut at "\nAND\n"
RECURSIVE ConditionsOf(_)
ConditionsOf(text) ==
    IF text = <<>> THEN <<>>
    ELSE LET cuts == {i \in 1..Len(text) : text[i] = "\nAND\n"}
         IN IF cuts = {} THEN <<text>>
            ELSE LET c == CHOOSE i \in cuts : \A j \in cuts : i <= j
                 IN <<SubSeq(text, 1, c - 1)>> \o ConditionsOf(SubSeq(text, c + 1, Len(text)))

\* a naming-only filter: of type identifier, without a value
NamingOnly(item) ==
    /\ "type" \in DOMAIN item[2] /\ item[2].type = "identifier"
    /\ item[2].value = None

\* C24: assemble_where_statement returns the empty string for an empty filter
\* map; otherwise it returns "WHERE" followed by one condition per filter that
\* is not naming-only, joined by AND, in the iteration order of the map; a
\* naming-only filter (type identifier, no value) contributes no condition.
C24_WhereStatement ==
    pc = "assembled" =>
        LET Real(item) == ~NamingOnly(item)
            real == SelectSeq(config.filters, Real)
            text == results[1].value
        IN /\ results[1].raised = ""
           /\ config.filters = <<>> => text = <<>>
           /\ real # <<>> =>
                 /\ Head(text) = "WHERE\n"
                 /\ Len(ConditionsOf(Tail(text))) = Len(real)
                 /\ \A k \in 1..Len(real) :
                       ConditionsOf(Tail(text))[k][2] = real[k][2].column

\* C25: a filter whose value is null is rendered as `column IS NULL` for the
\* operator = and as `column IS NOT NULL` for the operator !=, never as
\* `column = 'None'`, also next to other filters.
C25_NullValueIsNull ==
    pc = "assembled" =>
        \A k \in 1..Len(config.filters) :
            LET filter == config.filters[k][2]
            IN (\A i \in 1..Len(config.filters) : ~NamingOnly(config.filters[i])) /\ filter.value = None =>
                  /\ results[1].raised = ""
                  /\ ConditionsOf(Tail(results[1].value))[k] =
                        <<"    ", filter.column,
                          IF filter.operator = "=" THEN " IS NULL" ELSE " IS NOT NULL">>

----------------------------------------------------------------------------
(* The records of result_dicts after the run *)

\* C27: the result records are not mutated after the run: neither
\* _aggregate_result_dicts nor load_to_database changes, adds or removes a key
\* of a record held in result_dicts, and the list keeps the same records in the
\* same order.
C27_RecordsNotMutated ==
    [][pc = "records" => result_dicts' = result_dicts]_vars

----------------------------------------------------------------------------
(* The existence cache across check classes (executor.py, checks.py) *)

\* the rows the table can hold on the check date: a shop and a nullable column
ProbedRows ==
    [DATE : {"2023-01-01"}, shop_code : {"SHOP001", "SHOP002"},
     num_orders : {None, PyInt(1)}]

\* the declared checks: a CountCheck on *, a RelCountChangeCheck and an
\* IqrOutlierCheck on num_orders, all on the same table and date
ProbedConfigs ==
    {[check_type |-> t, table |-> "orders",
      check_column |-> IF t = "CountCheck" THEN "*" ELSE "num_orders",
      shop_id |-> PyStr(s), date |-> "2023-01-01", monitor_only |-> TRUE,
      lower_threshold |-> NegInf, upper_threshold |-> PosInf,
      rolling_days |-> 1, interval_days |-> 1, how |-> "both", iqr_factor |-> Float(2)] :
        t \in {"CountCheck", "RelCountChangeCheck", "IqrOutlierCheck"},
        s \in {"SHOP001", "SHOP002"}}

\* RelCountChangeCheck.__init__: the date filter is taken out of self.filters
RelCountChangeCheck(kwargs, database_accessor) ==
    LET parent == NewCheck(kwargs, database_accessor)
    IN [f \in DOMAIN parent \cup {"rolling_days", "date_filter_column"} |->
          CASE f = "rolling_days" -> kwargs.rolling_days
            [] f = "date_filter_column" -> "DATE"
            [] f = "check_column" -> kwargs.check_column
            [] f = "name" -> kwargs.check_column \o "_count_change"
            [] f = "filters" -> [name \in DOMAIN parent.filters \ {"date"} |-> parent.filters[name]]
            [] OTHER -> parent[f]]

\* CHECK_MAP[check_type](**check_kwargs)
check_factory(kwargs, database_accessor) ==
    CASE kwargs.check_type = "CountCheck" -> NewCheck(kwargs, database_accessor)
      [] kwargs.check_type = "RelCountChangeCheck" -> RelCountChangeCheck(kwargs, database_accessor)
      [] kwargs.check_type = "IqrOutlierCheck" ->
            IqrOutlierCheck(pop(kwargs, {"lower_threshold", "upper_threshold"}), database_accessor)

\* the engine answering assemble_data_exists_query of the class on the rows of
\* the table: COUNT(*) > 0 under the filters for a CountCheck, COUNT(*) > 0 under
\* the filters and the date for a RelCountChangeCheck, and
\* COUNTIF(check_column IS NOT NULL) > 0 under the filters and the date for an
\* IqrOutlierCheck
assemble_data_exists_query(check_type, self, rows) ==
    LET on_date == IF check_type = "CountCheck" THEN rows
                   ELSE {row \in rows : row.DATE = self.date_filter_value}
        selected == Filtered(on_date, self.filters)
        counted == IF check_type = "IqrOutlierCheck"
                   THEN {row \in selected : row[self.check_column] # None}
                   ELSE selected
    IN [error |-> "", rows |-> <<PyStr(IF Cardinality(counted) > 0 THEN "" ELSE self.table)>>]

\* an executor on an in-memory engine holding the rows of the table
InitProbe ==
    /\ config \in [database_accessor : {""}, checks : SeqsUpTo(ProbedConfigs, MaxChecks),
                   tables : [orders : SUBSET ProbedRows]]
    /\ checks = <<>>
    /\ pc = "start"
    /\ idx = 1
    /\ results = <<>>
    /\ result_dicts = <<>>
    /\ check_failed = FALSE
    /\ cache = EmptyDict
    /\ queryLog = <<>>

\* execute_checks, first loop: every declared check is constructed
InstantiateProbedChecks ==
    /\ pc = "start"
    /\ checks' = [i \in 1..Len(config.checks) |->
                      check_factory(config.checks[i], config.database_accessor)]
    /\ pc' = "exec"
    /\ UNCHANGED <<config, idx, results, result_dicts, check_failed, cache, queryLog>>

\* execute_checks, one iteration of the evaluation loop; the probe is answered
\* from the rows of the table
ExecuteProbedCheck ==
    /\ pc = "exec"
    /\ idx <= Len(checks)
    /\ LET check_instance == checks[idx]
           check_type == config.checks[idx].check_type
           cache_key == _get_dataset_cache_key(check_instance)
           hit == CacheHit(cache, cache_key)
           probe == IF hit THEN Loaded
                    ELSE assemble_data_exists_query(check_type, check_instance,
                                                    config.tables[check_instance.table])
           dc == IF hit THEN [self |-> check_instance, ret |-> cache[cache_key]]
                 ELSE data_check(check_instance, probe)
           data_check_result == dc.ret
           log1 == IF hit THEN queryLog
                   ELSE Append(queryLog, Query("probe", check_instance.table, idx, probe))
       IN /\ cache' = IF hit THEN cache ELSE CachePut(cache, cache_key, data_check_result)
          /\ IF data_check_result # EmptyDict
             THEN /\ results' = AppendResult(results, data_check_result)
                  /\ checks' = [checks EXCEPT ![idx] = dc.self]
                  /\ queryLog' = log1
                  /\ idx' = idx + 1 /\ pc' = pc
             ELSE IF check_type = "IqrOutlierCheck"
             THEN \E metric \in IqrMetricOutcomes(check_instance) :
                     LET queried == IqrOutlierCheck_check(dc.self, metric)
                         c == check(queried, MetricColumn(metric))
                     IN /\ queryLog' = Append(log1, Query("metric", check_instance.table,
                                                          idx, metric))
                        /\ IF ComparisonRaises(queried, metric)
                           THEN /\ checks' = [checks EXCEPT ![idx] = queried]
                                /\ results' = results
                                /\ idx' = idx /\ pc' = "raised"
                           ELSE /\ checks' = [checks EXCEPT ![idx] = c.self]
                                /\ results' = AppendResult(results, c.ret)
                                /\ idx' = idx + 1 /\ pc' = pc
             ELSE \E metric \in MetricOutcomes(RunValues) :
                     LET c == check(dc.self, metric)
                     IN /\ results' = AppendResult(results, c.ret)
                        /\ checks' = [checks EXCEPT ![idx] = c.self]
                        /\ queryLog' = Append(log1, Query("metric", check_instance.table,
                                                          idx, metric))
                        /\ idx' = idx + 1 /\ pc' = pc
    /\ UNCHANGED <<config, result_dicts, check_failed>>

NextProbe == InstantiateProbedChecks \/ ExecuteProbedCheck \/ Finish

SpecProbe == InitProbe /\ [][NextProbe]_vars

\* the probe of the check at position i itself, asked on the rows of the table,
\* reports missing data
OwnProbeReportsMissing(i) ==
    ReportsMissing(assemble_data_exists_query(config.checks[i].check_type, checks[i],
                                              config.tables[checks[i].table]))

\* C28: for every check of a run, the data-existence outcome the executor uses
\* for it, fresh or from the cache, is the outcome the existence probe of that
\* check returns on the same data; two checks of different classes that share a
\* cache key are never given the differing outcome of the other, in either
\* declaration order.
C28_CachedOutcomeIsOwnProbe ==
    \A i \in Evaluated : IsMissingDataRecord(results[i]) <=> OwnProbeReportsMissing(i)
====
